---- MODULE Spec2Model ----
(***************************************************************************)
(* Verification model of the GryLin document pipeline.                     *)
(*                                                                         *)
(*   SpecRL     the RateLimiter of lib/ocr.ts (queue, worker loop, timer)  *)
(*   SpecBatch  filterTransactionalEmailsBatched / processWithConcurrency  *)
(*   SpecAlerts the guardian alert flows of the stores and screens         *)
(*   SpecRescan checkDeadlines awaited twice in a row                      *)
(*   SpecCalls  the library functions, applied to enumerated arguments     *)
(*   SpecFolders addFolder from the vault screen and from scanDocument     *)
(*   SpecRLLive the RateLimiter with fair timers and settling tasks        *)
(*   SpecGuardian the guardian store's operations, one after the other     *)
(*   SpecVault  documents, folders and life stacks of the local store      *)
(*   SpecCache  the cache in front of getFolders and getLifeStacks         *)
(*                                                                         *)
(* JavaScript runs one callback at a time, so an action is the code that   *)
(* runs between two suspension points (await) of an operation.             *)
(***************************************************************************)
EXTENDS Integers, Naturals, Sequences, FiniteSets, TLC

Max(a, b) == IF a >= b THEN a ELSE b

Range(s) == {s[i] : i \in 1..Len(s)}

(***************************************************************************)
(* RateLimiter (src/lib/ocr.ts)                                            *)
(***************************************************************************)

\* private readonly minDelayMs = 2000
minDelayMs == 2000

\* number of queueRequest calls explored
MaxTasks == 3
\* Date.now() is explored up to this many milliseconds
MaxTime == 7000
\* amounts by which the wall clock advances between two callbacks
TickSizes == {500, 1000}

Tasks == 1..MaxTasks

VARIABLES
  queue,            \* RateLimiter.queue: the tasks waiting, oldest first
  isProcessing,     \* RateLimiter.isProcessing
  lastRequestTime,  \* RateLimiter.lastRequestTime
  clock,            \* Date.now()
  wpc,              \* where processQueue is suspended: "idle", "timer", "task"
  item,             \* the item processQueue holds (0: none)
  timerDue,         \* when the setTimeout of line 158 may fire
  submitted,        \* number of queueRequest calls made so far
  startLog,         \* history: the request() calls made, in order, with their time
  produced,         \* history: what each task's own promise settled with
  settled,          \* the state of the promise queueRequest returned to each caller
  settleCalls       \* history: number of resolve/reject calls made on that promise

rlVars == <<queue, isProcessing, lastRequestTime, clock, wpc, item, timerDue,
            submitted, startLog, produced, settled, settleCalls>>

VARIABLES
  bpc,              \* where filterTransactionalEmailsBatched is: "idle", "race", "all", "delay", "done"
  emails,           \* emails.length of the call
  cfg,              \* the merged BatchConfig of the call
  bi,               \* the loop variable i: index of the first email of the batch
  bpos,             \* number of items of the batch the for loop has taken
  executing,        \* processWithConcurrency's executing array (emails, by index)
  inFlight,         \* emails whose getEmailContent call has not returned yet
  done,             \* emails whose promise in executing has settled
  results,          \* processWithConcurrency's results array
  transactionalEmails, \* the accumulated result list
  processed         \* the processed counter

batchVars == <<bpc, emails, cfg, bi, bpos, executing, inFlight, done, results,
               transactionalEmails, processed>>

VARIABLES
  date,             \* the current time (new Date()), in half days
  profile,          \* authStore.profile: the user's three notification settings
  lsItems,          \* local storage, key ITEMS: the item records, in insertion order
  lsAlerts,         \* local storage, key ALERTS: the alert records, in insertion order
  itemIds,          \* number of item ids generated so far
  alertIds,         \* number of alert ids generated so far
  items,            \* itemsStore.items
  alerts,           \* guardianStore.alerts
  unreadCount,      \* guardianStore.unreadCount
  hc,               \* the running ScanScreen.handleConfirm, if any
  cd,               \* the running guardianStore.checkDeadlines, if any
  fa,               \* the running guardianStore.fetchAlerts called by a screen, if any
  da,               \* the running guardianStore.dismissAlert, if any
  mp,               \* the running itemsStore.markAsPaid, if any
  ri,               \* the running itemsStore.removeItem, if any
  started           \* number of operations started so far

alertVars == <<date, profile, lsItems, lsAlerts, itemIds, alertIds, items, alerts,
               unreadCount, hc, cd, fa, da, mp, ri, started>>

VARIABLES
  call              \* the latest call of a library function: name, arguments, result

callVars == <<call>>

VARIABLES
  rescan            \* a caller that awaits checkDeadlines twice in a row

rescanVars == <<rescan>>

VARIABLES
  lsFolders,        \* AsyncStorage FOLDERS: the persisted folders, in order
  folders,          \* itemsStore state.folders
  folderIds,        \* number of folder ids generated so far
  af,               \* addFolder calls in progress, one per caller
  cf,               \* VaultScreen.handleCreateFolder in progress
  sd                \* scanDocument in progress

folderVars == <<lsFolders, folders, folderIds, af, cf, sd>>

VARIABLES
  lsRecords,        \* AsyncStorage ITEMS, with the fields status, folder_id, life_stack_id
  records,          \* itemsStore state.items, with the same fields
  recordIds,        \* number of document ids generated so far
  lsStacks,         \* AsyncStorage LIFE_STACKS
  lifeStacks,       \* lifeStackStore state.stacks
  stackIds,         \* number of stack ids generated so far
  vop,              \* the store operation in progress, or the last one
  vops              \* number of store operations called so far

vaultVars ==
  <<lsRecords, records, recordIds, lsStacks, lifeStacks, stackIds, vop, vops>>

VARIABLES
  dbRows,           \* the tables vault_folders and life_stacks of the user
  dbItems,          \* the table items of the user
  cache,            \* supabase.ts cache: key -> {data, timestamp}
  cacheNow,         \* Date.now()
  gq,               \* getFolders / getLifeStacks in progress
  wq,               \* the write in progress
  dbWrites,         \* history: number of writes the database has taken
  doneVersion,      \* history: per table, the latest write to it that has returned
  served            \* history: what the latest getFolders / getLifeStacks returned

cacheVars == <<dbRows, dbItems, cache, cacheNow, gq, wq, dbWrites, doneVersion, served>>

vars == <<rlVars, batchVars, alertVars, callVars, rescanVars, folderVars, vaultVars, cacheVars>>

Pending == [kind |-> "pending", task |-> 0]

RLInit ==
  /\ queue = <<>>
  /\ isProcessing = FALSE
  /\ lastRequestTime = 0
  \* Date.now() counts from 1970: it is far above minDelayMs at the first call
  /\ clock = minDelayMs
  /\ wpc = "idle"
  /\ item = 0
  /\ timerDue = 0
  /\ submitted = 0
  /\ startLog = <<>>
  /\ produced = [t \in Tasks |-> Pending]
  /\ settled = [t \in Tasks |-> Pending]
  /\ settleCalls = [t \in Tasks |-> 0]

\* lines 153-155: now - lastRequestTime, Math.max(0, minDelayMs - timeSinceLastRequest)
DelayNeededNone(now, last) == 0

DelayNeeded(now, last) == Max(0, minDelayMs - (now - last))

\* line 150: queue.shift() takes the oldest entry
ShiftNewest(q) == [item |-> q[Len(q)], rest |-> SubSeq(q, 1, Len(q) - 1)]

Shift(q) == [item |-> Head(q), rest |-> Tail(q)]

\* lines 163-166: item.resolve(result) after the await, item.reject(error) in
\* the catch: the caller's promise gets the kind and the value of its own task
CallerOutcomeRewritten(kind, it) == [kind |-> "resolved", task |-> it]

CallerOutcome(kind, it) == [kind |-> kind, task |-> it]

\* lines 162-163: lastRequestTime = Date.now(); item.request() is called
StartRequest(it) ==
  /\ lastRequestTime' = clock
  /\ startLog' = Append(startLog, [task |-> it, at |-> clock])
  /\ wpc' = "task"
  /\ timerDue' = 0

\* lines 149-163: one pass of the while loop over the non-empty queue q, up to
\* its first await
LoopPass(q) ==
  LET s == Shift(q)
      delayNeeded == DelayNeeded(clock, lastRequestTime)
  IN /\ queue' = s.rest
     /\ item' = s.item
     /\ IF delayNeeded > 0
          THEN /\ wpc' = "timer"
               /\ timerDue' = clock + delayNeeded
               /\ UNCHANGED <<lastRequestTime, startLog>>
          ELSE StartRequest(s.item)

\* variant of LoopActive that never sees the loop
LoopActiveUnseen == FALSE

\* variant of LoopActive that always sees a loop
LoopActiveAlways == TRUE

\* line 146: if (this.isProcessing || ...) return
LoopActive == isProcessing

\* lines 134-148: queueRequest pushes the entry and calls processQueue, which
\* returns at once when a loop is active and otherwise starts one
QueueRequest ==
  /\ submitted < MaxTasks
  /\ submitted' = submitted + 1
  /\ LET q == Append(queue, submitted + 1)
     IN IF LoopActive
          THEN /\ queue' = q
               /\ UNCHANGED <<isProcessing, lastRequestTime, wpc, item, timerDue, startLog>>
          ELSE /\ isProcessing' = TRUE
               /\ LoopPass(q)
  /\ UNCHANGED <<clock, produced, settled, settleCalls, batchVars, alertVars, callVars, rescanVars, folderVars, vaultVars, cacheVars>>

\* line 158: the timer promise resolves, the loop goes on to lines 161-163
TimerFires ==
  /\ wpc = "timer"
  /\ clock >= timerDue
  /\ StartRequest(item)
  /\ UNCHANGED <<queue, isProcessing, clock, item, submitted, produced, settled,
                 settleCalls, batchVars, alertVars, callVars, rescanVars, folderVars, vaultVars, cacheVars>>

\* lines 163-170: the task's promise settles; the caller's promise is resolved
\* or rejected with it; the loop takes the next entry or ends
RequestSettles(kind) ==
  /\ wpc = "task"
  /\ produced' = [produced EXCEPT ![item] = [kind |-> kind, task |-> item]]
  /\ settleCalls' = [settleCalls EXCEPT ![item] = @ + 1]
  /\ settled' = IF settled[item].kind = "pending"
                  THEN [settled EXCEPT ![item] = CallerOutcome(kind, item)]
                  ELSE settled
  /\ IF Len(queue) > 0
       THEN /\ LoopPass(queue)
            /\ UNCHANGED isProcessing
       ELSE /\ isProcessing' = FALSE
            /\ wpc' = "idle"
            /\ item' = 0
            /\ UNCHANGED <<queue, lastRequestTime, timerDue, startLog>>
  /\ UNCHANGED <<clock, submitted, batchVars, alertVars, callVars, rescanVars, folderVars, vaultVars, cacheVars>>

\* time passes
Tick ==
  /\ \E d \in TickSizes :
       /\ clock + d <= MaxTime
       /\ clock' = clock + d
  /\ UNCHANGED <<queue, isProcessing, lastRequestTime, wpc, item, timerDue,
                 submitted, startLog, produced, settled, settleCalls,
                 batchVars, alertVars, callVars, rescanVars, folderVars, vaultVars, cacheVars>>

RLNext ==
  \/ QueueRequest
  \/ TimerFires
  \/ \E kind \in {"resolved", "rejected"} : RequestSettles(kind)
  \/ Tick

\* line 158: the time of a pending timer comes, however far the clock has got
TimerElapses ==
  /\ wpc = "timer"
  /\ clock < timerDue
  /\ clock' = timerDue
  /\ UNCHANGED <<queue, isProcessing, lastRequestTime, wpc, item, timerDue,
                 submitted, startLog, produced, settled, settleCalls,
                 batchVars, alertVars, callVars, rescanVars, folderVars, vaultVars, cacheVars>>

RLLiveNext ==
  \/ RLNext
  \/ TimerElapses

\* timers fire and every dispatched task settles
RLFairness ==
  /\ WF_vars(TimerElapses)
  /\ WF_vars(TimerFires)
  /\ WF_vars(\E kind \in {"resolved", "rejected"} : RequestSettles(kind))

(***************************************************************************)
(* Batched email filtering (src/unnamed/part_008)                          *)
(***************************************************************************)

\* DEFAULT_BATCH_CONFIG, lines 456-460
DEFAULT_BATCH_CONFIG == [batchSize |-> 10, delayBetweenBatches |-> 100, maxConcurrent |-> 5]

\* largest emails.length explored
MaxEmails == 6

\* the configurations explored: the default and a small override of it
BatchConfigs ==
  {DEFAULT_BATCH_CONFIG,
   [batchSize |-> 4, delayBetweenBatches |-> 100, maxConcurrent |-> 2]}

Min(a, b) == IF a <= b THEN a ELSE b

BatchInit ==
  /\ bpc = "idle"
  /\ emails = 0
  /\ cfg = DEFAULT_BATCH_CONFIG
  /\ bi = 0
  /\ bpos = 0
  /\ executing = <<>>
  /\ inFlight = {}
  /\ done = {}
  /\ results = <<>>
  /\ transactionalEmails = <<>>
  /\ processed = 0

\* line 473: batch = emails.slice(i, i + batchSize)
BatchLen(i, n, c) == Min(c.batchSize, n - i)

\* lines 517-521: the filter callback returns its flag before the then-callback
\* that sets it has run, so it keeps no promise and the count is 0
SettledSeen(ex, dn) == {k \in 1..Len(ex) : FALSE}

\* lines 517-521: executing.splice(0, <length of the filtered array>)
Splice(ex, dn) == SubSeq(ex, Cardinality(SettledSeen(ex, dn)) + 1, Len(ex))

\* lines 511-525: the for loop of processWithConcurrency over the batch that
\* starts after email i, from its item number pos (0-based) on, up to the
\* next await that has to wait.  It yields the
\* executing array, the items taken and the await reached.  Promise.race over
\* an array that holds a settled promise resolves without waiting.
RECURSIVE RunLoop(_, _, _, _, _, _)
RunLoop(i, pos, len, ex, dn, c) ==
  IF pos >= len
    THEN [ex |-> ex, pos |-> pos, at |-> "all"]
    ELSE LET ex1 == Append(ex, i + pos + 1)
         IN IF Len(ex1) >= c.maxConcurrent
              THEN IF \E k \in 1..Len(ex1) : ex1[k] \in dn
                     THEN RunLoop(i, pos + 1, len, Splice(ex1, dn), dn, c)
                     ELSE [ex |-> ex1, pos |-> pos + 1, at |-> "race"]
              ELSE RunLoop(i, pos + 1, len, ex1, dn, c)

\* line 512: the emails the loop handed to the processor on its way from item
\* pos to item r.pos
Launched(i, pos, r) == {i + k : k \in (pos + 1)..r.pos}

\* lines 462-475 and 511-516: the call; the first batch starts
FilterBatchedStart(n, c) ==
  /\ bpc = "idle"
  /\ emails' = n
  /\ cfg' = c
  /\ bi' = 0
  /\ IF n = 0
       THEN /\ bpc' = "done"
            /\ UNCHANGED <<bpos, executing, inFlight>>
       ELSE LET r == RunLoop(0, 0, BatchLen(0, n, c), <<>>, {}, c)
            IN /\ bpc' = r.at
               /\ bpos' = r.pos
               /\ executing' = r.ex
               /\ inFlight' = Launched(0, 0, r)
  /\ UNCHANGED <<done, results, transactionalEmails, processed, rlVars, alertVars, callVars, rescanVars, folderVars, vaultVars, cacheVars>>

\* lines 477-484, 512: getEmailContent of email e returns (or throws); the
\* processor yields the content or null and the then-callback pushes it.
\* lines 516-525: a pending Promise.race or Promise.all is then resumed.
\* lines 488-498: after Promise.all the batch is accounted for.
FetchReturns(e, keep) ==
  /\ e \in inFlight
  /\ LET dn == done \cup {e}
         res == Append(results, [email |-> e, content |-> keep])
     IN /\ done' = dn
        /\ IF bpc = "race"
             THEN LET r == RunLoop(bi, bpos, BatchLen(bi, emails, cfg), Splice(executing, dn), dn, cfg)
                  IN /\ bpc' = r.at
                     /\ bpos' = r.pos
                     /\ executing' = r.ex
                     /\ inFlight' = (inFlight \ {e}) \cup Launched(bi, bpos, r)
                     /\ results' = res
                     /\ UNCHANGED <<transactionalEmails, processed>>
             ELSE IF bpc = "all" /\ Range(executing) \subseteq dn
                    THEN /\ transactionalEmails' =
                              transactionalEmails \o
                              SelectSeq(res, LAMBDA x : x.content)
                         /\ processed' = processed + BatchLen(bi, emails, cfg)
                         /\ bpc' = IF bi + cfg.batchSize < emails THEN "delay" ELSE "done"
                         /\ inFlight' = inFlight \ {e}
                         /\ results' = res
                         /\ UNCHANGED <<bpos, executing>>
                    ELSE /\ inFlight' = inFlight \ {e}
                         /\ results' = res
                         /\ UNCHANGED <<bpc, bpos, executing, transactionalEmails, processed>>
  /\ UNCHANGED <<emails, cfg, bi, rlVars, alertVars, callVars, rescanVars, folderVars, vaultVars, cacheVars>>

\* lines 495-497, 472-475: the delay between batches ends, i += batchSize and
\* processWithConcurrency starts on the next batch with fresh arrays
NextBatch ==
  /\ bpc = "delay"
  /\ LET i == bi + cfg.batchSize
         r == RunLoop(i, 0, BatchLen(i, emails, cfg), <<>>, done, cfg)
     IN /\ bi' = i
        /\ bpc' = r.at
        /\ bpos' = r.pos
        /\ executing' = r.ex
        /\ inFlight' = inFlight \cup Launched(i, 0, r)
        /\ results' = <<>>
  /\ UNCHANGED <<emails, cfg, done, transactionalEmails, processed, rlVars, alertVars, callVars, rescanVars, folderVars, vaultVars, cacheVars>>

BatchNext ==
  \/ \E n \in 0..MaxEmails, c \in BatchConfigs : FilterBatchedStart(n, c)
  \/ \E e \in 1..MaxEmails, keep \in BOOLEAN : FetchReturns(e, keep)
  \/ NextBatch

(***************************************************************************)
(* Guardian alerts (stores/guardianStore.ts, stores/itemsStore.ts,         *)
(* lib/localStorage.ts and the screens that call them)                     *)
(*                                                                         *)
(* isTestUser (stores/alertStore.ts:256-265) returns true for every user,  *)
(* so every store operation takes its local storage branch.  Time is       *)
(* counted in half days; a due_date of 0 stands for null.                  *)
(***************************************************************************)

\* the divisor 1000 * 60 * 60 * 24 of daysUntilDue, in half days
DayLen == 2

\* number of documents saved
MaxDocs == 2
\* number of alert records created
MaxAlerts == 3
\* number of operations the user starts
MaxOps == 3
\* the time of the first state (two days after time 0), the last time
\* explored, and the jumps of time between two callbacks (three days)
StartDate == 2 * DayLen
MaxDate == 10
DateSteps == {3 * DayLen}
\* due dates a scanned document can carry.  Seen from StartDate they are
\* within a day, within a week and further away; three days later they are
\* overdue, within a day and within a week
DueDates == {5, 12, 24}

NoItem == [id |-> 0, status |-> "new", due_date |-> 0, is_scam |-> FALSE]

NoAlert == [id |-> 0, item_id |-> 0, alert_type |-> "none", trigger_date |-> 0,
            is_dismissed |-> FALSE, created_at |-> 0]

AllEnabled == [push_notifications_enabled |-> TRUE, reminder_7day_enabled |-> TRUE,
               reminder_1day_enabled |-> TRUE]

\* the notificationSettings argument left out
NoSettings == [AllEnabled EXCEPT !.push_notifications_enabled = "undefined"]

IdleHC == [pc |-> "idle", item |-> NoItem, fetched |-> <<>>]

IdleCD == [pc |-> "idle", arg |-> NoSettings, items |-> <<>>, alerts |-> <<>>, now |-> 0,
           settings |-> AllEnabled, idx |-> 0, newAlert |-> NoAlert, fetched |-> <<>>]

IdleFA == [pc |-> "idle", fetched |-> <<>>]

IdleDA == [pc |-> "idle", alertId |-> 0, found |-> FALSE]

IdleOp == [pc |-> "idle", itemId |-> 0, found |-> FALSE]

AlertInit ==
  /\ date = StartDate
  \* signIn, stores/alertStore.ts:119-128
  /\ profile = AllEnabled
  /\ lsItems = <<>>
  /\ lsAlerts = <<>>
  /\ itemIds = 0
  /\ alertIds = 0
  /\ items = <<>>
  /\ alerts = <<>>
  /\ unreadCount = 0
  /\ hc = IdleHC
  /\ cd = IdleCD
  /\ fa = IdleFA
  /\ da = IdleDA
  /\ mp = IdleOp
  /\ ri = IdleOp
  /\ started = 0

\* Math.ceil(a / b) for b > 0
CeilDiv(a, b) == 0 - ((0 - a) \div b)

\* Math.ceil((dueDate.getTime() - now.getTime()) / (1000 * 60 * 60 * 24))
DaysUntilDue(due, now) == CeilDiv(due - now, DayLen)

\* variant of ItemAlertType whose one-day branch leaves out daysUntilDue = 1
ItemAlertTypeStrict(daysUntilDue) ==
  IF daysUntilDue < 0 THEN "overdue"
  ELSE IF daysUntilDue < 1 THEN "deadline_1day"
  ELSE "deadline_7day"

\* itemsStore.ts:581-590: the alert type createAlertForItem picks
ItemAlertType(daysUntilDue) ==
  IF daysUntilDue < 0 THEN "overdue"
  ELSE IF daysUntilDue <= 1 THEN "deadline_1day"
  ELSE IF daysUntilDue <= 7 THEN "deadline_7day"
  ELSE "deadline_7day"

\* variant of DeadlineAlertType whose 7-day branch has no lower limit
DeadlineAlertTypeNoLowerLimit(daysUntilDue, settings) ==
  IF daysUntilDue < 0 THEN "overdue"
  ELSE IF daysUntilDue <= 1 /\ settings.reminder_1day_enabled THEN "deadline_1day"
  ELSE IF daysUntilDue <= 7 /\ settings.reminder_7day_enabled THEN "deadline_7day"
  ELSE "none"

\* guardianStore.ts:145-154: the alert type checkDeadlines creates, "none"
\* when no branch is taken
DeadlineAlertType(daysUntilDue, settings) ==
  IF daysUntilDue < 0 THEN "overdue"
  ELSE IF daysUntilDue <= 1 /\ settings.reminder_1day_enabled THEN "deadline_1day"
  ELSE IF daysUntilDue <= 7 /\ daysUntilDue > 1 /\ settings.reminder_7day_enabled
    THEN "deadline_7day"
  ELSE "none"

\* room for one more operation of the user
CanStart == started < MaxOps

\* guardianStore.ts:85: alerts.filter((a) => !a.is_dismissed).length
ActiveCount(as) == Cardinality({k \in 1..Len(as) : ~as[k].is_dismissed})

\* localStorage.ts:245-249 with the alertData of the callers
NewAlert(itemId, type, due) ==
  [id |-> alertIds + 1, item_id |-> itemId, alert_type |-> type, trigger_date |-> due,
   is_dismissed |-> FALSE, created_at |-> date]

\* localStorage.ts:251-254: createLocalAlert appends the record to the stored list
CreateLocalAlert(a) ==
  /\ alertIds < MaxAlerts
  /\ alertIds' = alertIds + 1
  /\ lsAlerts' = Append(lsAlerts, a)

\* variant of Skipped without the test for an existing alert
SkippedUnchecked(it, as) ==
  \/ it.due_date = 0
  \/ it.status = "paid"
  \/ it.status = "archived"

\* guardianStore.ts:128-142: the item is skipped by the loop of checkDeadlines
Skipped(it, as) ==
  \/ it.due_date = 0
  \/ it.status = "paid"
  \/ it.status = "archived"
  \/ \E k \in 1..Len(as) : as[k].item_id = it.id /\ ~as[k].is_dismissed

\* variant of Creating for which the loop never calls createAlert
CreatingNothing(its, from, as, now, settings) == {}

\* guardianStore.ts:127-155: the positions from `from` on at which the loop
\* calls createAlert
Creating(its, from, as, now, settings) ==
  {k \in from..Len(its) :
     /\ ~Skipped(its[k], as)
     /\ DeadlineAlertType(DaysUntilDue(its[k].due_date, now), settings) # "none"}

MinOf(S) == CHOOSE k \in S : \A j \in S : k <= j

\* guardianStore.ts:127-158: the loop of checkDeadlines from position `from`
\* up to its next await: the createLocalAlert of createAlert, or the read of
\* fetchAlerts after the loop
Deadlines(c, from) ==
  LET todo == Creating(c.items, from, c.alerts, c.now, c.settings)
  IN IF todo = {}
       THEN /\ cd' = [c EXCEPT !.pc = "fetchAlerts", !.fetched = lsAlerts]
            /\ UNCHANGED <<lsAlerts, alertIds>>
       ELSE LET k == MinOf(todo)
                it == c.items[k]
                a == NewAlert(it.id,
                              DeadlineAlertType(DaysUntilDue(it.due_date, c.now), c.settings),
                              it.due_date)
            IN /\ CreateLocalAlert(a)
               /\ cd' = [c EXCEPT !.pc = "createAlert", !.idx = k, !.newAlert = a]

\* app/(tabs)/index.tsx:32-42: HomeScreen.onRefresh calls fetchAlerts(userId)
\* and checkDeadlines(userId) together; guardianStore.ts:76-84 and 102-110:
\* each runs up to its read of local storage
HomeOnRefresh ==
  /\ fa.pc = "idle"
  /\ cd.pc = "idle"
  /\ CanStart
  /\ started' = started + 1
  /\ fa' = [pc |-> "get", fetched |-> lsAlerts]
  /\ cd' = [IdleCD EXCEPT !.pc = "getItems", !.arg = NoSettings, !.items = lsItems]
  /\ UNCHANGED <<date, profile, lsItems, lsAlerts, itemIds, alertIds, items, alerts,
                 unreadCount, hc, da, mp, ri, rlVars, batchVars, callVars, rescanVars, folderVars, vaultVars, cacheVars>>

\* guardianStore.ts:111-155: getLocalItems has returned; alerts and now are
\* read, the settings default to all enabled, and the loop starts
CheckDeadlinesItems ==
  /\ cd.pc = "getItems"
  /\ LET settings == IF cd.arg = NoSettings THEN AllEnabled ELSE cd.arg
         c == [cd EXCEPT !.alerts = alerts, !.now = date, !.settings = settings]
     IN IF ~settings.push_notifications_enabled
          THEN /\ cd' = IdleCD
               /\ UNCHANGED <<lsAlerts, alertIds>>
          ELSE Deadlines(c, 1)
  /\ UNCHANGED <<date, profile, lsItems, itemIds, items, alerts, unreadCount,
                 hc, fa, da, mp, ri, started, rlVars, batchVars, callVars, rescanVars, folderVars, vaultVars, cacheVars>>

\* guardianStore.ts:191-194: createLocalAlert has returned; createAlert adds
\* the alert to the store and the loop goes on
CheckDeadlinesCreated ==
  /\ cd.pc = "createAlert"
  /\ alerts' = Append(alerts, cd.newAlert)
  /\ unreadCount' = unreadCount + 1
  /\ Deadlines(cd, cd.idx + 1)
  /\ UNCHANGED <<date, profile, lsItems, itemIds, items, hc, fa, da, mp, ri,
                 started, rlVars, batchVars, callVars, rescanVars, folderVars, vaultVars, cacheVars>>

\* guardianStore.ts:85-86, 159: the fetchAlerts at the end of checkDeadlines
\* has read the alerts and puts them into the store
CheckDeadlinesFetched ==
  /\ cd.pc = "fetchAlerts"
  /\ alerts' = cd.fetched
  /\ unreadCount' = ActiveCount(cd.fetched)
  /\ cd' = IdleCD
  /\ UNCHANGED <<date, profile, lsItems, lsAlerts, itemIds, alertIds, items,
                 hc, fa, da, mp, ri, started, rlVars, batchVars, callVars, rescanVars, folderVars, vaultVars, cacheVars>>

\* app/(tabs)/alerts.tsx:20-35: a screen calls fetchAlerts on its own
FetchAlertsStart ==
  /\ fa.pc = "idle"
  /\ CanStart
  /\ started' = started + 1
  /\ fa' = [pc |-> "get", fetched |-> lsAlerts]
  /\ UNCHANGED <<date, profile, lsItems, lsAlerts, itemIds, alertIds, items, alerts,
                 unreadCount, hc, cd, da, mp, ri, rlVars, batchVars, callVars, rescanVars, folderVars, vaultVars, cacheVars>>

\* guardianStore.ts:85-86
FetchAlertsDone ==
  /\ fa.pc = "get"
  /\ alerts' = fa.fetched
  /\ unreadCount' = ActiveCount(fa.fetched)
  /\ fa' = IdleFA
  /\ UNCHANGED <<date, profile, lsItems, lsAlerts, itemIds, alertIds, items,
                 hc, cd, da, mp, ri, started, rlVars, batchVars, callVars, rescanVars, folderVars, vaultVars, cacheVars>>

\* part_012:572-593, itemsStore.ts:286-291, localStorage.ts:37-48: the user
\* confirms the scanned document; addItem stores the new item
HandleConfirm(due, scam) ==
  /\ hc.pc = "idle"
  /\ CanStart
  /\ started' = started + 1
  /\ itemIds < MaxDocs
  /\ LET newItem == [id |-> itemIds + 1, status |-> "new", due_date |-> due, is_scam |-> scam]
     IN /\ itemIds' = itemIds + 1
        /\ lsItems' = Append(lsItems, newItem)
        /\ hc' = [IdleHC EXCEPT !.pc = "addItem", !.item = newItem]
  /\ UNCHANGED <<date, profile, lsAlerts, alertIds, items, alerts, unreadCount,
                 cd, fa, da, mp, ri, rlVars, batchVars, callVars, rescanVars, folderVars, vaultVars, cacheVars>>

\* itemsStore.ts:295-299, part_012:595-599, itemsStore.ts:569-602: addItem
\* returns; with a due date createAlertForItem stores an alert
HandleConfirmAdded ==
  /\ hc.pc = "addItem"
  /\ items' = <<hc.item>> \o items
  /\ IF hc.item.due_date = 0
       THEN /\ hc' = IdleHC
            /\ UNCHANGED <<lsAlerts, alertIds>>
       ELSE /\ CreateLocalAlert(NewAlert(hc.item.id,
                                         ItemAlertType(DaysUntilDue(hc.item.due_date, date)),
                                         hc.item.due_date))
            /\ hc' = [hc EXCEPT !.pc = "createAlert"]
  /\ UNCHANGED <<date, profile, lsItems, itemIds, alerts, unreadCount,
                 cd, fa, da, mp, ri, started, rlVars, batchVars, callVars, rescanVars, folderVars, vaultVars, cacheVars>>

\* itemsStore.ts:609-610, part_012:600: createAlertForItem returns and
\* handleConfirm calls fetchAlerts
HandleConfirmAlerted ==
  /\ hc.pc = "createAlert"
  /\ hc' = [hc EXCEPT !.pc = "fetchAlerts", !.fetched = lsAlerts]
  /\ UNCHANGED <<date, profile, lsItems, lsAlerts, itemIds, alertIds, items, alerts,
                 unreadCount, cd, fa, da, mp, ri, started, rlVars, batchVars, callVars, rescanVars, folderVars, vaultVars, cacheVars>>

\* guardianStore.ts:85-86, part_012:603-630
HandleConfirmFetched ==
  /\ hc.pc = "fetchAlerts"
  /\ alerts' = hc.fetched
  /\ unreadCount' = ActiveCount(hc.fetched)
  /\ hc' = IdleHC
  /\ UNCHANGED <<date, profile, lsItems, lsAlerts, itemIds, alertIds, items,
                 cd, fa, da, mp, ri, started, rlVars, batchVars, callVars, rescanVars, folderVars, vaultVars, cacheVars>>

\* localStorage.ts:257-265: updateLocalAlert(alertId, {is_dismissed: true})
DismissStored(as, alertId) ==
  [k \in 1..Len(as) |-> IF as[k].id = alertId THEN [as[k] EXCEPT !.is_dismissed = TRUE]
                                              ELSE as[k]]

\* app/(tabs)/alerts.tsx:52-56, guardianStore.ts:202-208: the user dismisses
\* an alert the screen shows as active
DismissAlert(alertId) ==
  /\ da.pc = "idle"
  /\ CanStart
  /\ started' = started + 1
  /\ \E k \in 1..Len(alerts) : alerts[k].id = alertId /\ ~alerts[k].is_dismissed
  /\ LET found == \E k \in 1..Len(lsAlerts) : lsAlerts[k].id = alertId
     IN /\ da' = [pc |-> "update", alertId |-> alertId, found |-> found]
        /\ lsAlerts' = IF found THEN DismissStored(lsAlerts, alertId) ELSE lsAlerts
  /\ UNCHANGED <<date, profile, lsItems, itemIds, alertIds, items, alerts, unreadCount,
                 hc, cd, fa, mp, ri, rlVars, batchVars, callVars, rescanVars, folderVars, vaultVars, cacheVars>>

\* guardianStore.ts:212-222: the store marks the alert or, when
\* updateLocalAlert threw 'Alert not found', records the error
DismissAlertDone ==
  /\ da.pc = "update"
  /\ IF da.found
       THEN /\ alerts' = DismissStored(alerts, da.alertId)
            /\ unreadCount' = Max(0, unreadCount - 1)
       ELSE UNCHANGED <<alerts, unreadCount>>
  /\ da' = IdleDA
  /\ UNCHANGED <<date, profile, lsItems, lsAlerts, itemIds, alertIds, items,
                 hc, cd, fa, mp, ri, started, rlVars, batchVars, callVars, rescanVars, folderVars, vaultVars, cacheVars>>

\* localStorage.ts:50-58: updateLocalItem(itemId, {status})
SetStatus(its, itemId, status) ==
  [k \in 1..Len(its) |-> IF its[k].id = itemId THEN [its[k] EXCEPT !.status = status]
                                               ELSE its[k]]

InList(its, itemId) == \E k \in 1..Len(its) : its[k].id = itemId

\* app/item/[id].tsx:110-113, itemsStore.ts:356-362: the user marks a
\* document of the store as paid
MarkAsPaid(itemId) ==
  /\ mp.pc = "idle"
  /\ CanStart
  /\ started' = started + 1
  /\ InList(items, itemId)
  /\ mp' = [pc |-> "update", itemId |-> itemId, found |-> InList(lsItems, itemId)]
  /\ lsItems' = SetStatus(lsItems, itemId, "paid")
  /\ UNCHANGED <<date, profile, lsAlerts, itemIds, alertIds, items, alerts, unreadCount,
                 hc, cd, fa, da, ri, rlVars, batchVars, callVars, rescanVars, folderVars, vaultVars, cacheVars>>

\* itemsStore.ts:366-375: the store marks the item, unless updateLocalItem
\* threw 'Item not found'
MarkAsPaidDone ==
  /\ mp.pc = "update"
  /\ items' = IF mp.found THEN SetStatus(items, mp.itemId, "paid") ELSE items
  /\ mp' = IdleOp
  /\ UNCHANGED <<date, profile, lsItems, lsAlerts, itemIds, alertIds, alerts, unreadCount,
                 hc, cd, fa, da, ri, started, rlVars, batchVars, callVars, rescanVars, folderVars, vaultVars, cacheVars>>

\* localStorage.ts:60-64: deleteLocalItem keeps the other items
Without(its, itemId) == SelectSeq(its, LAMBDA it : it.id # itemId)

\* app/item/[id].tsx:135-144, itemsStore.ts:333-340: the user deletes a
\* document of the store
RemoveItem(itemId) ==
  /\ ri.pc = "idle"
  /\ CanStart
  /\ started' = started + 1
  /\ InList(items, itemId)
  /\ ri' = [pc |-> "delete", itemId |-> itemId, found |-> TRUE]
  /\ lsItems' = Without(lsItems, itemId)
  /\ UNCHANGED <<date, profile, lsAlerts, itemIds, alertIds, items, alerts, unreadCount,
                 hc, cd, fa, da, mp, rlVars, batchVars, callVars, rescanVars, folderVars, vaultVars, cacheVars>>

\* itemsStore.ts:344-348
RemoveItemDone ==
  /\ ri.pc = "delete"
  /\ items' = Without(items, ri.itemId)
  /\ ri' = IdleOp
  /\ UNCHANGED <<date, profile, lsItems, lsAlerts, itemIds, alertIds, alerts, unreadCount,
                 hc, cd, fa, da, mp, started, rlVars, batchVars, callVars, rescanVars, folderVars, vaultVars, cacheVars>>

\* app/(tabs)/profile.tsx:17-24, stores/alertStore.ts:228-234: the push
\* toggle of the profile screen sets the three settings to its value
HandlePushToggle(value) ==
  /\ profile' = [push_notifications_enabled |-> value, reminder_7day_enabled |-> value,
                 reminder_1day_enabled |-> value]
  /\ UNCHANGED <<date, lsItems, lsAlerts, itemIds, alertIds, items, alerts, unreadCount,
                 hc, cd, fa, da, mp, ri, started, rlVars, batchVars, callVars, rescanVars, folderVars, vaultVars, cacheVars>>

\* time passes
AdvanceDate ==
  /\ \E d \in DateSteps :
       /\ date + d <= MaxDate
       /\ date' = date + d
  /\ UNCHANGED <<profile, lsItems, lsAlerts, itemIds, alertIds, items, alerts, unreadCount,
                 hc, cd, fa, da, mp, ri, started, rlVars, batchVars, callVars, rescanVars, folderVars, vaultVars, cacheVars>>

AlertsNext ==
  \/ HomeOnRefresh
  \/ CheckDeadlinesItems
  \/ CheckDeadlinesCreated
  \/ CheckDeadlinesFetched
  \/ FetchAlertsStart
  \/ FetchAlertsDone
  \/ \E due \in DueDates \cup {0}, scam \in BOOLEAN : HandleConfirm(due, scam)
  \/ HandleConfirmAdded
  \/ HandleConfirmAlerted
  \/ HandleConfirmFetched
  \/ \E a \in 1..MaxAlerts : DismissAlert(a)
  \/ DismissAlertDone
  \/ \E d \in 1..MaxDocs : MarkAsPaid(d)
  \/ MarkAsPaidDone
  \/ \E d \in 1..MaxDocs : RemoveItem(d)
  \/ RemoveItemDone
  \/ \E value \in BOOLEAN : HandlePushToggle(value)
  \/ AdvanceDate

(***************************************************************************)
(* checkDeadlines awaited twice in a row (guardianStore.ts:102-166), with  *)
(* the other operations run before and after, not during                   *)
(***************************************************************************)

IdleRescan == [pc |-> "idle", before |-> 0, between |-> 0]

RescanInit == rescan = IdleRescan

\* no operation of the stores is between its start and its end
Quiet ==
  /\ hc.pc = "idle"
  /\ cd.pc = "idle"
  /\ fa.pc = "idle"
  /\ da.pc = "idle"
  /\ mp.pc = "idle"
  /\ ri.pc = "idle"

\* guardianStore.ts:102-110: checkDeadlines(userId) runs up to its read of
\* the stored items
CheckDeadlines ==
  cd' = [IdleCD EXCEPT !.pc = "getItems", !.arg = NoSettings, !.items = lsItems]

\* the first call
RescanFirst ==
  /\ rescan.pc = "idle"
  /\ Quiet
  /\ CheckDeadlines
  /\ rescan' = [pc |-> "first", before |-> Len(lsAlerts), between |-> 0]
  /\ UNCHANGED <<date, profile, lsItems, lsAlerts, itemIds, alertIds, items, alerts,
                 unreadCount, hc, fa, da, mp, ri, started, rlVars, batchVars, callVars,
                 folderVars, vaultVars, cacheVars>>

\* the first call has returned: the second call
RescanSecond ==
  /\ rescan.pc = "first"
  /\ cd.pc = "idle"
  /\ CheckDeadlines
  /\ rescan' = [rescan EXCEPT !.pc = "second", !.between = Len(lsAlerts)]
  /\ UNCHANGED <<date, profile, lsItems, lsAlerts, itemIds, alertIds, items, alerts,
                 unreadCount, hc, fa, da, mp, ri, started, rlVars, batchVars, callVars,
                 folderVars, vaultVars, cacheVars>>

\* the second call has returned
RescanDone ==
  /\ rescan.pc = "second"
  /\ cd.pc = "idle"
  /\ rescan' = [rescan EXCEPT !.pc = "done"]
  /\ UNCHANGED <<alertVars, rlVars, batchVars, callVars, folderVars, vaultVars, cacheVars>>

\* the caller goes away
RescanLeave ==
  /\ rescan.pc = "done"
  /\ rescan' = IdleRescan
  /\ UNCHANGED <<alertVars, rlVars, batchVars, callVars, folderVars, vaultVars, cacheVars>>

\* operations of the user between two rescans
BetweenRescans ==
  /\ rescan.pc = "idle"
  /\ \/ \E due \in DueDates \cup {0}, scam \in BOOLEAN : HandleConfirm(due, scam)
     \/ HandleConfirmAdded
     \/ HandleConfirmAlerted
     \/ HandleConfirmFetched
     \/ \E alertId \in 1..MaxAlerts : DismissAlert(alertId)
     \/ DismissAlertDone
     \/ \E itemId \in 1..MaxDocs : MarkAsPaid(itemId)
     \/ MarkAsPaidDone
     \/ \E itemId \in 1..MaxDocs : RemoveItem(itemId)
     \/ RemoveItemDone
     \/ AdvanceDate

RescanNext ==
  \/ BetweenRescans
  \/ RescanFirst
  \/ CheckDeadlinesItems
  \/ CheckDeadlinesCreated
  \/ CheckDeadlinesFetched
  \/ RescanSecond
  \/ RescanDone
  \/ RescanLeave

(***************************************************************************)
(* The guardian store's operations, each awaited before the next is called *)
(* (guardianStore.ts:76-98, 169-235)                                       *)
(***************************************************************************)

\* alert types a caller of createAlert passes
AlertTypeArgs == {"deadline_7day", "overdue"}

\* lines 76-87: fetchAlerts puts the stored alerts and their count into the store
fetchAlerts ==
  /\ Quiet
  /\ alerts' = lsAlerts
  /\ unreadCount' = ActiveCount(lsAlerts)
  /\ UNCHANGED <<date, profile, lsItems, lsAlerts, itemIds, alertIds, items,
                 hc, cd, fa, da, mp, ri, started, rlVars, batchVars, callVars,
                 rescanVars, folderVars, vaultVars, cacheVars>>

\* lines 169-194: createAlert stores the alert and adds it to the store
createAlert(itemId, alertType) ==
  /\ Quiet
  /\ CreateLocalAlert(NewAlert(itemId, alertType, date))
  /\ alerts' = Append(alerts, NewAlert(itemId, alertType, date))
  /\ unreadCount' = unreadCount + 1
  /\ UNCHANGED <<date, profile, lsItems, itemIds, items,
                 hc, cd, fa, da, mp, ri, started, rlVars, batchVars, callVars,
                 rescanVars, folderVars, vaultVars, cacheVars>>

\* lines 212-217: the store after dismissAlert's update has succeeded
Dismissed(as, count, alertId) ==
  [alerts |-> DismissStored(as, alertId), unreadCount |-> Max(0, count - 1)]

\* lines 202-222: dismissAlert of any alert id.  An alert of the store is
\* updated in local storage, which throws when it is not stored; for an id the
\* store does not know the remote update is called, which succeeds or fails
dismissAlert(alertId, remoteOk) ==
  LET known == \E k \in 1..Len(alerts) : alerts[k].id = alertId
      stored == \E k \in 1..Len(lsAlerts) : lsAlerts[k].id = alertId
      ok == IF known THEN stored ELSE remoteOk
      after == Dismissed(alerts, unreadCount, alertId)
  IN /\ Quiet
     /\ lsAlerts' = IF known /\ stored THEN DismissStored(lsAlerts, alertId) ELSE lsAlerts
     /\ alerts' = IF ok THEN after.alerts ELSE alerts
     /\ unreadCount' = IF ok THEN after.unreadCount ELSE unreadCount
     /\ UNCHANGED <<date, profile, lsItems, itemIds, alertIds, items,
                    hc, cd, fa, da, mp, ri, started, rlVars, batchVars, callVars,
                    rescanVars, folderVars, vaultVars, cacheVars>>

\* lines 226-234: the store after dismissAlert has been awaited for each of ids
RECURSIVE DismissedAll(_, _, _)
DismissedAll(as, count, ids) ==
  IF ids = {} THEN [alerts |-> as, unreadCount |-> count]
  ELSE LET alertId == MinOf(ids)
           after == Dismissed(as, count, alertId)
       IN DismissedAll(after.alerts, after.unreadCount, ids \ {alertId})

\* lines 225-235: dismissAlertsForItem dismisses the store's active alerts of
\* the item one after the other
dismissAlertsForItem(itemId) ==
  LET itemAlerts == {alerts[k].id : k \in {j \in 1..Len(alerts) :
                         alerts[j].item_id = itemId /\ ~alerts[j].is_dismissed}}
      storedIds == {lsAlerts[k].id : k \in 1..Len(lsAlerts)}
      after == DismissedAll(alerts, unreadCount, itemAlerts \cap storedIds)
  IN /\ Quiet
     /\ itemAlerts # {}
     /\ lsAlerts' = [k \in 1..Len(lsAlerts) |->
                       IF lsAlerts[k].id \in itemAlerts
                         THEN [lsAlerts[k] EXCEPT !.is_dismissed = TRUE] ELSE lsAlerts[k]]
     /\ alerts' = after.alerts
     /\ unreadCount' = after.unreadCount
     /\ UNCHANGED <<date, profile, lsItems, itemIds, alertIds, items,
                    hc, cd, fa, da, mp, ri, started, rlVars, batchVars, callVars,
                    rescanVars, folderVars, vaultVars, cacheVars>>

GuardianNext ==
  \/ fetchAlerts
  \/ \E itemId \in 1..MaxDocs, alertType \in AlertTypeArgs : createAlert(itemId, alertType)
  \/ \E alertId \in 1..(MaxAlerts + 1), remoteOk \in BOOLEAN : dismissAlert(alertId, remoteOk)
  \/ \E itemId \in 1..MaxDocs : dismissAlertsForItem(itemId)

(***************************************************************************)
(* Library functions.  An action applies one function to arguments drawn   *)
(* from a bounded set and records the call in `call`.                      *)
(***************************************************************************)

NoCall == [fn |-> "none", args |-> <<>>, done |-> TRUE, result |-> <<>>]

CallInit == call = NoCall

\* a call about to be made
Calling(fn, args) == [fn |-> fn, args |-> args, done |-> FALSE, result |-> <<>>]

\* the function called in `call` returns: nothing else changes
Returns(fn, result) ==
  /\ call.fn = fn
  /\ ~call.done
  /\ call' = [call EXCEPT !.done = TRUE, !.result = result]
  /\ UNCHANGED <<rlVars, batchVars, alertVars, rescanVars, folderVars, vaultVars, cacheVars>>

(***************************************************************************)
(* The alert type of a due date (guardianStore.ts:132-154,                 *)
(* itemsStore.ts:575-590, the determineAlertType of the alert tests)       *)
(***************************************************************************)

\* due dates and current times of the calls, in half days
MaxDue == 24
MaxNow == 8

SettingsArgs == [push_notifications_enabled : {TRUE}, reminder_7day_enabled : BOOLEAN,
                 reminder_1day_enabled : BOOLEAN]

\* part_007:221-234
determineAlertType(dueDate, now) ==
  LET daysUntilDue == CeilDiv(dueDate - now, DayLen)
  IN IF daysUntilDue < 0 THEN "overdue"
     ELSE IF daysUntilDue <= 1 THEN "deadline_1day"
     ELSE IF daysUntilDue <= 7 THEN "deadline_7day"
     ELSE "null"

AlertTypeCalls ==
  {Calling("alertType", [dueDate |-> dueDate, now |-> now, settings |-> settings]) :
     dueDate \in 0..MaxDue, now \in 0..MaxNow, settings \in SettingsArgs}

\* the three computations of the alert type, for one due date and one time:
\* ofItem by createAlertForItem, ofDeadline by checkDeadlines, ofTest by
\* determineAlertType
AlertTypeCall ==
  Returns("alertType",
          [daysUntilDue |-> DaysUntilDue(call.args.dueDate, call.args.now),
           ofItem |-> ItemAlertType(DaysUntilDue(call.args.dueDate, call.args.now)),
           ofDeadline |-> DeadlineAlertType(DaysUntilDue(call.args.dueDate, call.args.now),
                                            call.args.settings),
           ofTest |-> determineAlertType(call.args.dueDate, call.args.now)])

(***************************************************************************)
(* Strings.  A string is a sequence of characters: Len, SubSeq, Head, Tail *)
(* and \o apply to it.                                                     *)
(***************************************************************************)

Upper == "ABCDEFGHIJKLMNOPQRSTUVWXYZ"
Lower == "abcdefghijklmnopqrstuvwxyz"
Digits == {"0", "1", "2", "3", "4", "5", "6", "7", "8", "9"}
Whitespace == {" ", "\t", "\n"}

CharAt(str, i) == SubSeq(str, i, i)

\* String.prototype.toLowerCase of one character
LowerChar(c) ==
  IF \E i \in 1..Len(Upper) : CharAt(Upper, i) = c
    THEN CharAt(Lower, CHOOSE i \in 1..Len(Upper) : CharAt(Upper, i) = c)
    ELSE c

\* String.prototype.toLowerCase, character by character (by halves)
RECURSIVE toLowerCase(_)
toLowerCase(str) ==
  IF Len(str) = 0 THEN ""
  ELSE IF Len(str) = 1 THEN LowerChar(str)
  ELSE toLowerCase(SubSeq(str, 1, Len(str) \div 2))
         \o toLowerCase(SubSeq(str, Len(str) \div 2 + 1, Len(str)))

\* str.startsWith(pattern, i - 1)
MatchesAt(str, i, pattern) ==
  /\ i + Len(pattern) - 1 <= Len(str)
  /\ SubSeq(str, i, i + Len(pattern) - 1) = pattern

\* String.prototype.includes
includes(str, pattern) == \E i \in 1..(Len(str) + 1) : MatchesAt(str, i, pattern)

\* str.endsWith(pattern)
endsWith(str, pattern) ==
  Len(pattern) <= Len(str) /\ MatchesAt(str, Len(str) - Len(pattern) + 1, pattern)

\* Array.prototype.filter over a list of patterns: the positions kept
Matching(patterns, str) == {k \in 1..Len(patterns) : includes(str, patterns[k])}

\* the regular expression /a\s+b/ tested on str (a and b literal)
MatchesSpaced(str, a, b) ==
  \E i \in 1..Len(str) :
    /\ MatchesAt(str, i, a)
    /\ \E j \in (i + Len(a) + 1)..Len(str) :
         /\ \A k \in (i + Len(a))..(j - 1) : CharAt(str, k) \in Whitespace
         /\ MatchesAt(str, j, b)

\* the regular expression /c{n,}/ tested on str, c one of a set of characters
MatchesRun(str, chars, n) ==
  \E i \in 1..Len(str) :
    /\ i + n - 1 <= Len(str)
    /\ \A k \in i..(i + n - 1) : CharAt(str, k) \in chars

(***************************************************************************)
(* Scam detection (src/lib/scamDetector.ts)                                *)
(***************************************************************************)

URGENCY_PATTERNS ==
  <<"account blocked", "account suspended", "act now", "act immediately",
    "verify immediately", "urgent action required", "immediate action",
    "your account will be", "within 24 hours", "within 48 hours",
    "limited time", "expires today", "final notice", "last warning",
    "failure to respond", "avoid suspension", "prevent closure">>

SENSITIVE_INFO_PATTERNS ==
  <<"password", "pin number", "otp", "one-time password",
    "social security", "bank account number", "credit card number",
    "cvv", "security code", "login credentials", "verify your identity",
    "confirm your details", "update your information",
    "click here to verify", "click the link below">>

\* scamDetector.ts:57: the top-level domains of the third pattern
SuspiciousTlds == {"xyz", "top", "club", "work", "click", "link", "gq", "ml", "cf", "tk"}

\* scamDetector.ts:58: the strings the fourth pattern matches
Typosquats ==
  {"paypal", "paypa1", "amazon", "amaz0n", "google", "g0ogle", "go0gle", "g00gle",
   "microsoft", "micr0soft", "micros0ft", "micr0s0ft", "apple", "app1e"}

\* scamDetector.ts:55-58: one of SUSPICIOUS_DOMAIN_PATTERNS matches the domain
\* (the last two are case-insensitive)
SUSPICIOUS_DOMAIN_PATTERNS(domain) ==
  \/ MatchesRun(domain, Digits, 4)
  \/ MatchesRun(domain, {"-"}, 2)
  \/ \E tld \in SuspiciousTlds : endsWith(toLowerCase(domain), "." \o tld)
  \/ \E name \in Typosquats : includes(toLowerCase(domain), name)

\* the characters of str from position i up to the first one in `stop`
RECURSIVE UpTo(_, _, _)
UpTo(str, i, stop) ==
  IF i > Len(str) \/ CharAt(str, i) \in stop THEN ""
  ELSE CharAt(str, i) \o UpTo(str, i + 1, stop)

\* scamDetector.ts:64-67: email.match(/@([^>]+)/)
extractDomain(email) ==
  LET starts == {i \in 1..(Len(email) - 1) :
                   CharAt(email, i) = "@" /\ CharAt(email, i + 1) # ">"}
  IN IF starts = {} THEN ""
     ELSE toLowerCase(UpTo(email, (CHOOSE i \in starts : \A j \in starts : i <= j) + 1, {">"}))

\* scamDetector.ts:72-75
detectUrgencyLanguage(content) == Matching(URGENCY_PATTERNS, toLowerCase(content))

\* scamDetector.ts:80-83
detectSensitiveInfoRequests(content) == Matching(SENSITIVE_INFO_PATTERNS, toLowerCase(content))

\* scamDetector.ts:88-100: the number of indicators returned (0 or 1)
detectSuspiciousDomain(sender) ==
  IF SUSPICIOUS_DOMAIN_PATTERNS(extractDomain(sender)) THEN 1 ELSE 0

\* scamDetector.ts:105-124: the number of indicators returned (0 or 1)
detectMismatchedLinks(content) ==
  IF \/ MatchesSpaced(toLowerCase(content), "click", "here")
     \/ MatchesSpaced(toLowerCase(content), "verify", "now")
     \/ MatchesSpaced(toLowerCase(content), "login", "here")
     \/ MatchesSpaced(toLowerCase(content), "update", "account")
    THEN 1 ELSE 0

\* scamDetector.ts:171-180
Recommendation(riskScore) ==
  IF riskScore >= 70
    THEN "HIGH RISK: This appears to be a scam. Do not click any links or provide personal information."
  ELSE IF riskScore >= 40
    THEN "MEDIUM RISK: Exercise caution. Verify the sender through official channels before taking action."
  ELSE IF riskScore >= 20
    THEN "LOW RISK: Some suspicious elements detected. Review carefully before responding."
  ELSE "This message appears to be legitimate."

\* variant of RiskScore without the cap of line 165
RiskScoreUncapped(urgency, sensitive, domain, links) ==
  (IF urgency > 0 THEN Min(urgency * 15, 40) ELSE 0)
  + (IF sensitive > 0 THEN Min(sensitive * 20, 50) ELSE 0)
  + (IF domain > 0 THEN 25 ELSE 0)
  + (IF links > 0 THEN 15 ELSE 0)

\* scamDetector.ts:134-165: the score from the numbers of indicators found
RiskScore(urgency, sensitive, domain, links) ==
  Min((IF urgency > 0 THEN Min(urgency * 15, 40) ELSE 0)
      + (IF sensitive > 0 THEN Min(sensitive * 20, 50) ELSE 0)
      + (IF domain > 0 THEN 25 ELSE 0)
      + (IF links > 0 THEN 15 ELSE 0), 100)

\* scamDetector.ts:132-188
detectScam(content, sender) ==
  LET urgencyIndicators == detectUrgencyLanguage(content)
      sensitiveIndicators == detectSensitiveInfoRequests(content)
      domainIndicators == detectSuspiciousDomain(sender)
      linkIndicators == detectMismatchedLinks(content)
      riskScore == RiskScore(Cardinality(urgencyIndicators), Cardinality(sensitiveIndicators),
                             domainIndicators, linkIndicators)
  IN [is_scam |-> riskScore >= 70,
      risk_score |-> riskScore,
      scam_indicators |-> [urgency |-> urgencyIndicators, sensitive |-> sensitiveIndicators,
                           domain |-> domainIndicators, links |-> linkIndicators],
      recommendation |-> Recommendation(riskScore)]

\* the pieces of text of which the contents of the calls are made, and the
\* senders of the calls
Fragments ==
  <<"Dear customer, ", "ACT NOW! ", "Final notice. ", "Last warning: ",
    "send your Password ", "and CVV ", "and OTP ", "Click  here ">>

ScenarioContent == "URGENT: verify your password immediately or account suspended"

Senders ==
  {"security@paypa1-verify.xyz", "billing@electric-company.com",
   "Support <help@bank--alerts.com>", "noreply@shop12345.com", "unknown sender"}

\* the fragments at the positions of S, in order
RECURSIVE ContentOf(_, _)
ContentOf(S, i) ==
  IF i > Len(Fragments) THEN ""
  ELSE (IF i \in S THEN Fragments[i] ELSE "") \o ContentOf(S, i + 1)

Contents == {ContentOf(S, 1) : S \in SUBSET (1..Len(Fragments))} \cup {ScenarioContent}

DetectScamCalls ==
  {Calling("detectScam", [content |-> content, sender |-> sender]) :
     content \in Contents, sender \in Senders}

DetectScamCall ==
  Returns("detectScam", detectScam(call.args.content, call.args.sender))

(***************************************************************************)
(* Folder names (src/stores/itemsStore.ts:473-535)                         *)
(***************************************************************************)

\* itemsStore.ts:478-515, in the order of Object.entries
documentFolderMap ==
  <<<<"driving licence", "Driving Licence">>,
    <<"driving license", "Driving Licence">>,
    <<"learner's licence", "Driving Licence">>,
    <<"pan card", "PAN Card">>,
    <<"permanent account", "PAN Card">>,
    <<"aadhaar", "Aadhaar Card">>,
    <<"aadhar", "Aadhaar Card">>,
    <<"passport", "Passport">>,
    <<"voter id", "Voter ID">>,
    <<"election", "Voter ID">>,
    <<"vehicle rc", "Vehicle RC">>,
    <<"registration certificate", "Vehicle RC">>,
    <<"credit card", "Credit Cards">>,
    <<"debit card", "Bank Cards">>,
    <<"bank statement", "Bank Statements">>,
    <<"electricity bill", "Utility Bills">>,
    <<"water bill", "Utility Bills">>,
    <<"gas bill", "Utility Bills">>,
    <<"phone bill", "Utility Bills">>,
    <<"mobile bill", "Utility Bills">>,
    <<"internet bill", "Utility Bills">>,
    <<"insurance", "Insurance">>,
    <<"policy", "Insurance">>,
    <<"medical", "Medical Records">>,
    <<"hospital", "Medical Records">>,
    <<"prescription", "Medical Records">>,
    <<"invoice", "Invoices & Receipts">>,
    <<"receipt", "Invoices & Receipts">>,
    <<"certificate", "Certificates">>,
    <<"marksheet", "Education">>,
    <<"degree", "Education">>,
    <<"salary slip", "Salary & Income">>,
    <<"payslip", "Salary & Income">>,
    <<"tax", "Tax Documents">>,
    <<"itr", "Tax Documents">>,
    <<"form 16", "Tax Documents">>>>

\* itemsStore.ts:525-532
categoryFolderMap ==
  [Finance |-> "Finance Documents", Health |-> "Medical Records",
   Shopping |-> "Shopping & Orders", Education |-> "Education",
   Career |-> "Career & Work", Other |-> "Other Documents"]

\* types ItemCategory (part_000)
ItemCategories == {"Finance", "Health", "Shopping", "Education", "Career", "Other"}

\* itemsStore.ts:473-535: the folder name, and the keyword of the table that
\* gave it ("" when the category did)
determineFolderName(title, category) ==
  LET titleLower == toLowerCase(title)
      hits == {k \in 1..Len(documentFolderMap) : includes(titleLower, documentFolderMap[k][1])}
  IN IF hits # {}
       THEN [folder |-> documentFolderMap[MinOf(hits)][2],
             keyword |-> documentFolderMap[MinOf(hits)][1]]
       ELSE [folder |-> (IF category \in DOMAIN categoryFolderMap
                           THEN categoryFolderMap[category] ELSE "Other Documents"),
             keyword |-> ""]

Titles ==
  {"Electric Bill", "Electricity Bill - March", "Driving Licence - John Doe",
   "Tax Invoice 2024", "Insurance Policy Renewal", "Birth Certificate",
   "Vehicle Registration Certificate", "Credit Card Statement", "Water bill",
   "Grocery list", "Semester Marksheet", "Offer letter", "PASSPORT", "Gym membership",
   "Lab report", "Salary Slip June", "Property Tax Receipt", "Rent agreement"}

DetermineFolderNameCalls ==
  {Calling("determineFolderName", [title |-> title, category |-> category]) :
     title \in Titles, category \in ItemCategories}

DetermineFolderNameCall ==
  Returns("determineFolderName", determineFolderName(call.args.title, call.args.category))

(***************************************************************************)
(* Folders of the local user: addFolder (itemsStore.ts:403-423) over       *)
(* createLocalFolder (localStorage.ts:103-118), called from the vault      *)
(* screen (vault.tsx:68-76) and from scanDocument (itemsStore.ts:621-750)  *)
(***************************************************************************)

MaxFolders == 3

Callers == {"vault", "scan"}

NoFolder == [id |-> 0, name |-> ""]

IdleAF == [pc |-> "idle", newFolder |-> NoFolder, read |-> <<>>]

IdleCF == [pc |-> "idle", read |-> <<>>]

IdleSD == [pc |-> "idle", folders |-> <<>>, autoAssignedFolderId |-> 0]

FolderInit ==
  /\ lsFolders = <<>>
  /\ folders = <<>>
  /\ folderIds = 0
  /\ af = [c \in Callers |-> IdleAF]
  /\ cf = IdleCF
  /\ sd = IdleSD

\* names typed into the vault screen, already trimmed and not empty
FolderNameInputs == {"Bills", "bills", "Utility Bills"}

\* analyses the completion service may return for a scanned image
ScanAnalyses ==
  {[title |-> "Electricity Bill - March", category |-> "Finance"],
   [title |-> "Grocery list", category |-> "Shopping"]}

\* determineFolderName(analysis.title, analysis.category) of every analysis
folderNameOf ==
  [analysis \in ScanAnalyses |->
     determineFolderName(analysis.title, analysis.category).folder]

\* name.toLowerCase() of every folder name that can occur
lowerNameOf ==
  [name \in FolderNameInputs \cup {folderNameOf[analysis] : analysis \in ScanAnalyses} |->
     toLowerCase(name)]

\* folders.find(f => f.name.toLowerCase() === folderName.toLowerCase())
FindFolder(fs, folderName) ==
  LET hits == {i \in 1..Len(fs) : lowerNameOf[fs[i].name] = lowerNameOf[folderName]}
  IN IF hits = {} THEN NoFolder ELSE fs[MinOf(hits)]

\* addFolder up to the first await of createLocalFolder: the new folder is built
addFolder(caller, name) ==
  /\ af[caller].pc = "idle"
  /\ folderIds < MaxFolders
  /\ folderIds' = folderIds + 1
  /\ af' = [af EXCEPT ![caller] =
              [pc |-> "read", newFolder |-> [id |-> folderIds + 1, name |-> name],
               read |-> <<>>]]

\* getAllLocalFolders resolves with the persisted list
AddFolderRead(caller) ==
  /\ af[caller].pc = "read"
  /\ af' = [af EXCEPT ![caller].pc = "write", ![caller].read = lsFolders]
  /\ UNCHANGED <<lsFolders, folders, folderIds, cf, sd>>
  /\ UNCHANGED <<rlVars, batchVars, alertVars, callVars, rescanVars, vaultVars, cacheVars>>

\* folders.push(newFolder); AsyncStorage.setItem(FOLDERS, folders)
AddFolderWrite(caller) ==
  /\ af[caller].pc = "write"
  /\ lsFolders' = Append(af[caller].read, af[caller].newFolder)
  /\ af' = [af EXCEPT ![caller].pc = "set"]
  /\ UNCHANGED <<folders, folderIds, cf, sd>>
  /\ UNCHANGED <<rlVars, batchVars, alertVars, callVars, rescanVars, vaultVars, cacheVars>>

\* set(state => ({folders: [...state.folders, newFolder]})); return newFolder
AddFolderSet(caller) ==
  /\ af[caller].pc = "set"
  /\ folders' = Append(folders, af[caller].newFolder)
  /\ af' = [af EXCEPT ![caller].pc = "returned"]
  /\ UNCHANGED <<lsFolders, folderIds, cf, sd>>
  /\ UNCHANGED <<rlVars, batchVars, alertVars, callVars, rescanVars, vaultVars, cacheVars>>

\* VaultScreen.handleCreateFolder: await addFolder(newFolderName.trim(), userId)
HandleCreateFolder(name) ==
  /\ cf.pc = "idle"
  /\ addFolder("vault", name)
  /\ cf' = [cf EXCEPT !.pc = "adding"]
  /\ UNCHANGED <<lsFolders, folders, sd>>
  /\ UNCHANGED <<rlVars, batchVars, alertVars, callVars, rescanVars, vaultVars, cacheVars>>

\* addFolder has returned: the dialog closes and fetchFolders(userId) is called
CreateFolderAdded ==
  /\ cf.pc = "adding"
  /\ af["vault"].pc = "returned"
  /\ af' = [af EXCEPT !["vault"] = IdleAF]
  /\ cf' = [cf EXCEPT !.pc = "fetching"]
  /\ UNCHANGED <<lsFolders, folders, folderIds, sd>>
  /\ UNCHANGED <<rlVars, batchVars, alertVars, callVars, rescanVars, vaultVars, cacheVars>>

\* fetchFolders: getLocalFolders resolves with the persisted list
FetchFoldersRead ==
  /\ cf.pc = "fetching"
  /\ cf' = [cf EXCEPT !.pc = "fetched", !.read = lsFolders]
  /\ UNCHANGED <<lsFolders, folders, folderIds, af, sd>>
  /\ UNCHANGED <<rlVars, batchVars, alertVars, callVars, rescanVars, vaultVars, cacheVars>>

\* fetchFolders: set({folders})
FetchFoldersSet ==
  /\ cf.pc = "fetched"
  /\ folders' = cf.read
  /\ cf' = IdleCF
  /\ UNCHANGED <<lsFolders, folderIds, af, sd>>
  /\ UNCHANGED <<rlVars, batchVars, alertVars, callVars, rescanVars, vaultVars, cacheVars>>

\* scanDocument up to its first await: let {folders} = get()
ScanDocument ==
  /\ sd.pc = "idle"
  /\ sd' = [pc |-> "analysing", folders |-> folders, autoAssignedFolderId |-> 0]
  /\ UNCHANGED <<lsFolders, folders, folderIds, af, cf>>
  /\ UNCHANGED <<rlVars, batchVars, alertVars, callVars, rescanVars, vaultVars, cacheVars>>

\* the analysis has arrived and a folder of that name is in the list read at the start
ScanFolderFound(analysis) ==
  LET folderName == folderNameOf[analysis]
      targetFolder == FindFolder(sd.folders, folderName)
  IN /\ sd.pc = "analysing"
     /\ targetFolder # NoFolder
     /\ sd' = [pc |-> "idle", folders |-> <<>>, autoAssignedFolderId |-> targetFolder.id]
     /\ UNCHANGED <<lsFolders, folders, folderIds, af, cf>>
     /\ UNCHANGED <<rlVars, batchVars, alertVars, callVars, rescanVars, vaultVars, cacheVars>>

\* the analysis has arrived and no folder of that name is in the list read at the start
ScanFolderMissing(analysis) ==
  LET folderName == folderNameOf[analysis]
      targetFolder == FindFolder(sd.folders, folderName)
  IN /\ sd.pc = "analysing"
     /\ targetFolder = NoFolder
     /\ addFolder("scan", folderName)
     /\ sd' = [sd EXCEPT !.pc = "adding"]
     /\ UNCHANGED <<lsFolders, folders, cf>>
     /\ UNCHANGED <<rlVars, batchVars, alertVars, callVars, rescanVars, vaultVars, cacheVars>>

\* targetFolder = await get().addFolder(...); folders = get().folders; return
ScanFolderAdded ==
  /\ sd.pc = "adding"
  /\ af["scan"].pc = "returned"
  /\ sd' = [pc |-> "idle", folders |-> <<>>,
            autoAssignedFolderId |-> af["scan"].newFolder.id]
  /\ af' = [af EXCEPT !["scan"] = IdleAF]
  /\ UNCHANGED <<lsFolders, folders, folderIds, cf>>
  /\ UNCHANGED <<rlVars, batchVars, alertVars, callVars, rescanVars, vaultVars, cacheVars>>

FoldersNext ==
  \/ \E name \in FolderNameInputs : HandleCreateFolder(name)
  \/ \E caller \in Callers : AddFolderRead(caller)
  \/ \E caller \in Callers : AddFolderWrite(caller)
  \/ \E caller \in Callers : AddFolderSet(caller)
  \/ CreateFolderAdded
  \/ FetchFoldersRead
  \/ FetchFoldersSet
  \/ ScanDocument
  \/ \E analysis \in ScanAnalyses : ScanFolderFound(analysis)
  \/ \E analysis \in ScanAnalyses : ScanFolderMissing(analysis)
  \/ ScanFolderAdded

(***************************************************************************)
(* Documents, folders and life stacks of the local user, one store         *)
(* operation awaited after the other (itemsStore.ts, lifeStackStore.ts,    *)
(* localStorage.ts)                                                        *)
(***************************************************************************)

\* number of documents created
MaxRecords == 2
\* number of life stacks created
MaxStacks == 2
\* number of store operations explored
MaxVaultOps == 4

\* names typed into the vault screen in this scenario
VaultFolderNames == {"Bills"}

ItemStatuses == {"new", "paid", "archived"}

IdleVop == [pc |-> "idle", op |-> "none", id |-> 0, before |-> <<>>]

VaultInit ==
  /\ lsRecords = <<>>
  /\ records = <<>>
  /\ recordIds = 0
  /\ lsStacks = <<>>
  /\ lifeStacks = <<>>
  /\ stackIds = 0
  /\ vop = IdleVop
  /\ vops = 0

IdsOf(s) == {s[k].id : k \in 1..Len(s)}

\* {...items[index], ...updates}
Merged(it, updates) ==
  [f \in DOMAIN it |-> IF f \in DOMAIN updates THEN updates[f] ELSE it[f]]

\* localStorage.ts:50-58: updateLocalItem
updateLocalItem(its, itemId, updates) ==
  [k \in 1..Len(its) |-> IF its[k].id = itemId THEN Merged(its[k], updates) ELSE its[k]]

\* a store operation is called: none is in progress
VaultCall(op, id, before) ==
  /\ vop.pc = "idle"
  /\ cf.pc = "idle"
  /\ vops < MaxVaultOps
  /\ vops' = vops + 1
  /\ vop' = [pc |-> op, op |-> op, id |-> id, before |-> before]

\* the operation returns to its caller
VaultReturn(op) ==
  /\ vop.pc = op
  /\ vop' = [vop EXCEPT !.pc = "idle"]
  /\ UNCHANGED vops

\* itemsStore.ts:286-293, localStorage.ts:37-48: addItem, createLocalItem
addItem(folderId, stackId) ==
  /\ recordIds < MaxRecords
  /\ VaultCall("addItem", recordIds + 1, <<>>)
  /\ recordIds' = recordIds + 1
  /\ lsRecords' = Append(lsRecords, [id |-> recordIds + 1, status |-> "new",
                                     folder_id |-> folderId, life_stack_id |-> stackId])
  /\ UNCHANGED <<records, lsStacks, lifeStacks, stackIds, folderVars>>
  /\ UNCHANGED <<rlVars, batchVars, alertVars, callVars, rescanVars, cacheVars>>

\* itemsStore.ts:294-298: set({items: [newItem, ...state.items]})
addItemDone ==
  /\ VaultReturn("addItem")
  /\ records' = <<lsRecords[Len(lsRecords)]>> \o records
  /\ UNCHANGED <<lsRecords, recordIds, lsStacks, lifeStacks, stackIds, folderVars>>
  /\ UNCHANGED <<rlVars, batchVars, alertVars, callVars, rescanVars, cacheVars>>

\* itemsStore.ts:307-317: editItem of a document of the store, updateLocalItem
editItem(itemId, updates) ==
  /\ itemId \in IdsOf(records)
  /\ itemId \in IdsOf(lsRecords)
  /\ VaultCall("editItem", itemId, <<>>)
  /\ lsRecords' = updateLocalItem(lsRecords, itemId, updates)
  /\ UNCHANGED <<records, recordIds, lsStacks, lifeStacks, stackIds, folderVars>>
  /\ UNCHANGED <<rlVars, batchVars, alertVars, callVars, rescanVars, cacheVars>>

\* itemsStore.ts:318-324: the store's document is replaced by the updated one
editItemDone ==
  /\ VaultReturn("editItem")
  /\ records' = [k \in 1..Len(records) |->
                   IF records[k].id = vop.id
                     THEN CHOOSE it \in Range(lsRecords) : it.id = vop.id
                     ELSE records[k]]
  /\ UNCHANGED <<lsRecords, recordIds, lsStacks, lifeStacks, stackIds, folderVars>>
  /\ UNCHANGED <<rlVars, batchVars, alertVars, callVars, rescanVars, cacheVars>>

\* itemsStore.ts:356-362: markAsPaid, updateLocalItem(itemId, {status: 'paid'})
markAsPaid(itemId) ==
  /\ itemId \in IdsOf(records)
  /\ itemId \in IdsOf(lsRecords)
  /\ VaultCall("markAsPaid", itemId, <<>>)
  /\ lsRecords' = updateLocalItem(lsRecords, itemId, [status |-> "paid"])
  /\ UNCHANGED <<records, recordIds, lsStacks, lifeStacks, stackIds, folderVars>>
  /\ UNCHANGED <<rlVars, batchVars, alertVars, callVars, rescanVars, cacheVars>>

\* itemsStore.ts:366-371: the store's document becomes paid
markAsPaidDone ==
  /\ VaultReturn("markAsPaid")
  /\ records' = updateLocalItem(records, vop.id, [status |-> "paid"])
  /\ UNCHANGED <<lsRecords, recordIds, lsStacks, lifeStacks, stackIds, folderVars>>
  /\ UNCHANGED <<rlVars, batchVars, alertVars, callVars, rescanVars, cacheVars>>

\* itemsStore.ts:378-384: archiveItem, updateLocalItem(itemId, {status: 'archived'})
archiveItem(itemId) ==
  /\ itemId \in IdsOf(records)
  /\ itemId \in IdsOf(lsRecords)
  /\ VaultCall("archiveItem", itemId, <<>>)
  /\ lsRecords' = updateLocalItem(lsRecords, itemId, [status |-> "archived"])
  /\ UNCHANGED <<records, recordIds, lsStacks, lifeStacks, stackIds, folderVars>>
  /\ UNCHANGED <<rlVars, batchVars, alertVars, callVars, rescanVars, cacheVars>>

\* itemsStore.ts:388-392: the store's document becomes archived
archiveItemDone ==
  /\ VaultReturn("archiveItem")
  /\ records' = updateLocalItem(records, vop.id, [status |-> "archived"])
  /\ UNCHANGED <<lsRecords, recordIds, lsStacks, lifeStacks, stackIds, folderVars>>
  /\ UNCHANGED <<rlVars, batchVars, alertVars, callVars, rescanVars, cacheVars>>

\* variant of deleteLocalFolder that clears the folder of every document
deleteLocalFolderOfAll(its, folderId) ==
  [k \in 1..Len(its) |-> [its[k] EXCEPT !.folder_id = 0]]

\* localStorage.ts:130-141: deleteLocalFolder
deleteLocalFolder(its, folderId) ==
  [k \in 1..Len(its) |-> IF its[k].folder_id = folderId
                           THEN [its[k] EXCEPT !.folder_id = 0] ELSE its[k]]

\* itemsStore.ts:448-456: removeFolder of a folder of the store
removeFolder(folderId) ==
  /\ folderId \in IdsOf(folders)
  /\ VaultCall("removeFolder", folderId, lsRecords)
  /\ lsFolders' = SelectSeq(lsFolders, LAMBDA f : f.id # folderId)
  /\ lsRecords' = deleteLocalFolder(lsRecords, folderId)
  /\ UNCHANGED <<records, recordIds, lsStacks, lifeStacks, stackIds>>
  /\ UNCHANGED <<folders, folderIds, af, cf, sd>>
  /\ UNCHANGED <<rlVars, batchVars, alertVars, callVars, rescanVars, cacheVars>>

\* itemsStore.ts:457-460: the folder leaves the store's list
removeFolderDone ==
  /\ VaultReturn("removeFolder")
  /\ folders' = SelectSeq(folders, LAMBDA f : f.id # vop.id)
  /\ UNCHANGED <<lsRecords, records, recordIds, lsStacks, lifeStacks, stackIds>>
  /\ UNCHANGED <<lsFolders, folderIds, af, cf, sd>>
  /\ UNCHANGED <<rlVars, batchVars, alertVars, callVars, rescanVars, cacheVars>>

\* lifeStackStore.ts:76-93, localStorage.ts:190-202: createStack
createStack ==
  /\ stackIds < MaxStacks
  /\ VaultCall("createStack", stackIds + 1, <<>>)
  /\ stackIds' = stackIds + 1
  /\ lsStacks' = Append(lsStacks, [id |-> stackIds + 1])
  /\ UNCHANGED <<lsRecords, records, recordIds, lifeStacks, folderVars>>
  /\ UNCHANGED <<rlVars, batchVars, alertVars, callVars, rescanVars, cacheVars>>

\* lifeStackStore.ts:103-107: set({lifeStacks: [...state.stacks, newStack]})
createStackDone ==
  /\ VaultReturn("createStack")
  /\ lifeStacks' = Append(lifeStacks, [id |-> vop.id])
  /\ UNCHANGED <<lsRecords, records, recordIds, lsStacks, stackIds, folderVars>>
  /\ UNCHANGED <<rlVars, batchVars, alertVars, callVars, rescanVars, cacheVars>>

\* lifeStackStore.ts:146-153, localStorage.ts:214-218: deleteStack,
\* deleteLocalLifeStack writes the stacks without the deleted one
deleteStack(stackId) ==
  /\ stackId \in IdsOf(lifeStacks)
  /\ VaultCall("deleteStack", stackId, lsRecords)
  /\ lsStacks' = SelectSeq(lsStacks, LAMBDA s : s.id # stackId)
  /\ UNCHANGED <<lsRecords, records, recordIds, lifeStacks, stackIds, folderVars>>
  /\ UNCHANGED <<rlVars, batchVars, alertVars, callVars, rescanVars, cacheVars>>

\* lifeStackStore.ts:157-160: the stack leaves the store's list
deleteStackDone ==
  /\ VaultReturn("deleteStack")
  /\ lifeStacks' = SelectSeq(lifeStacks, LAMBDA s : s.id # vop.id)
  /\ UNCHANGED <<lsRecords, records, recordIds, lsStacks, stackIds, folderVars>>
  /\ UNCHANGED <<rlVars, batchVars, alertVars, callVars, rescanVars, cacheVars>>

\* vault.tsx:68-76: a folder is created while no other operation runs
VaultCreateFolder ==
  /\ vop.pc = "idle"
  /\ \/ \E name \in VaultFolderNames : HandleCreateFolder(name)
     \/ AddFolderRead("vault")
     \/ AddFolderWrite("vault")
     \/ AddFolderSet("vault")
     \/ CreateFolderAdded
     \/ FetchFoldersRead
     \/ FetchFoldersSet

\* updates a caller of editItem may pass
ItemUpdates ==
  {[status |-> s] : s \in ItemStatuses}
    \cup {[folder_id |-> f] : f \in {0} \cup IdsOf(folders)}
    \cup {[life_stack_id |-> k] : k \in {0} \cup IdsOf(lifeStacks)}

VaultNext ==
  \/ VaultCreateFolder
  \/ \E f \in {0} \cup IdsOf(folders), k \in {0} \cup IdsOf(lifeStacks) : addItem(f, k)
  \/ addItemDone
  \/ \E itemId \in 1..MaxRecords, updates \in ItemUpdates : editItem(itemId, updates)
  \/ editItemDone
  \/ \E itemId \in 1..MaxRecords : markAsPaid(itemId)
  \/ markAsPaidDone
  \/ \E itemId \in 1..MaxRecords : archiveItem(itemId)
  \/ archiveItemDone
  \/ \E folderId \in 1..MaxFolders : removeFolder(folderId)
  \/ removeFolderDone
  \/ createStack
  \/ createStackDone
  \/ \E stackId \in 1..MaxStacks : deleteStack(stackId)
  \/ deleteStackDone

(***************************************************************************)
(* The in-memory cache of lib/supabase.ts in front of getFolders and       *)
(* getLifeStacks, for one signed-in user                                   *)
(***************************************************************************)

\* const CACHE_TTL = 5 * 60 * 1000
CACHE_TTL == 300000

\* number of writes explored
MaxWrites == 3
\* Date.now() is explored up to this many milliseconds after the start
MaxCacheTime == 600000
\* amounts by which the wall clock advances between two callbacks
CacheTicks == {100000, 200000}

\* cache keys of the user: `folders_${userId}`, `lifestacks_${userId}`
CacheKeys == [folders |-> "folders_u1", lifestacks |-> "lifestacks_u1"]

NoEntry == [data |-> {}, timestamp |-> 0 - 1, asOf |-> 0]

IdleGet == [pc |-> "idle", table |-> "none", rows |-> {}, asOf |-> 0]

IdleWrite == [pc |-> "idle", op |-> "none", version |-> 0]

NotServed == [table |-> "none", fromCache |-> FALSE, data |-> {}, age |-> 0, stale |-> FALSE]

CacheInit ==
  /\ dbRows = [folders |-> {}, lifestacks |-> {}]
  /\ dbItems = {}
  /\ cache = [k \in {CacheKeys.folders, CacheKeys.lifestacks} |-> NoEntry]
  /\ cacheNow = 0
  /\ gq = IdleGet
  /\ wq = IdleWrite
  /\ dbWrites = 0
  /\ doneVersion = [folders |-> 0, lifestacks |-> 0]
  /\ served = NotServed

\* lines 249-256: getCached: the entry, when there is one younger than CACHE_TTL
getCached(key) ==
  IF cache[key] # NoEntry /\ cacheNow - cache[key].timestamp < CACHE_TTL
    THEN cache[key] ELSE NoEntry

\* lines 262-272: clearCache(keyPattern) deletes the keys that include the pattern
clearCache(c, keyPattern) ==
  [k \in DOMAIN c |-> IF includes(k, keyPattern) THEN NoEntry ELSE c[k]]

RECURSIVE clearCaches(_, _)
clearCaches(c, patterns) ==
  IF patterns = <<>> THEN c ELSE clearCaches(clearCache(c, Head(patterns)), Tail(patterns))

\* the clearCache calls a write makes after its query has succeeded
Invalidates(op) ==
  IF op = "createItem" THEN <<"upcoming_u1", "folders_u1", "lifestacks_u1">>
  ELSE IF op \in {"updateItem", "deleteItem"} THEN <<"upcoming_", "folders_", "lifestacks_">>
  ELSE <<>>

\* the tables whose rows or item counts a write changes
WritesTo(op) ==
  IF op \in {"createFolder", "updateFolder", "deleteFolder"} THEN {"folders"}
  ELSE IF op \in {"createLifeStack", "updateLifeStack", "deleteLifeStack"} THEN {"lifestacks"}
  ELSE {"folders", "lifestacks"}

\* the column of items a table's item counts are taken from
RefOf(table) == IF table = "folders" THEN "folder_id" ELSE "life_stack_id"

\* lines 461-480, 663-681: the rows with their item counts
WithCounts(rows, table) ==
  {[id |-> r.id, name |-> r.name,
    item_count |-> Cardinality({i \in dbItems : i[RefOf(table)] = r.id})] : r \in rows}

\* lines 445-449, 647-651: getFolders / getLifeStacks up to the first await: a
\* cached value is returned, or the rows are queried
GetStart(table) ==
  LET key == CacheKeys[table]
      cached == getCached(key)
  IN /\ gq.pc = "idle"
     /\ IF cached # NoEntry
          THEN /\ served' = [table |-> table, fromCache |-> TRUE, data |-> cached.data,
                             age |-> cacheNow - cached.timestamp,
                             stale |-> cached.asOf < doneVersion[table]]
               /\ UNCHANGED <<cache, gq>>
          ELSE /\ cache' = [cache EXCEPT ![key] = NoEntry]
               /\ gq' = [IdleGet EXCEPT !.pc = "rows", !.table = table]
               /\ UNCHANGED served
     /\ UNCHANGED <<dbRows, dbItems, cacheNow, wq, dbWrites, doneVersion>>
     /\ UNCHANGED <<rlVars, batchVars, alertVars, callVars, rescanVars, folderVars, vaultVars>>

\* lines 452-459, 653-660: the rows have come; an empty list is returned as it is
GetRows ==
  /\ gq.pc = "rows"
  /\ IF dbRows[gq.table] = {}
       THEN /\ gq' = IdleGet
            /\ served' = [NotServed EXCEPT !.table = gq.table]
       ELSE /\ gq' = [gq EXCEPT !.pc = "counts", !.rows = dbRows[gq.table],
                                !.asOf = dbWrites]
            /\ UNCHANGED served
  /\ UNCHANGED <<dbRows, dbItems, cache, cacheNow, wq, dbWrites, doneVersion>>
  /\ UNCHANGED <<rlVars, batchVars, alertVars, callVars, rescanVars, folderVars, vaultVars>>

\* lines 463-483, 664-684: the item counts have come; the result is cached
GetCounts ==
  LET data == WithCounts(gq.rows, gq.table)
  IN /\ gq.pc = "counts"
     /\ cache' = [cache EXCEPT ![CacheKeys[gq.table]] =
                    [data |-> data, timestamp |-> cacheNow, asOf |-> gq.asOf]]
     /\ served' = [NotServed EXCEPT !.table = gq.table, !.data = data]
     /\ gq' = IdleGet
     /\ UNCHANGED <<dbRows, dbItems, cacheNow, wq, dbWrites, doneVersion>>
     /\ UNCHANGED <<rlVars, batchVars, alertVars, callVars, rescanVars, folderVars, vaultVars>>

\* a write's query takes effect in the database
WriteBegins(op) ==
  /\ wq.pc = "idle"
  /\ dbWrites < MaxWrites
  /\ dbWrites' = dbWrites + 1
  /\ wq' = [pc |-> "response", op |-> op, version |-> dbWrites + 1]
  /\ UNCHANGED <<cache, cacheNow, gq, doneVersion, served>>
  /\ UNCHANGED <<rlVars, batchVars, alertVars, callVars, rescanVars, folderVars, vaultVars>>

\* lines 486-498, 687-698: createFolder, createLifeStack
createRow(table) ==
  /\ WriteBegins(IF table = "folders" THEN "createFolder" ELSE "createLifeStack")
  /\ dbRows' = [dbRows EXCEPT ![table] = @ \cup {[id |-> dbWrites + 1, name |-> "a"]}]
  /\ UNCHANGED dbItems

\* lines 500-513, 700-713: updateFolder, updateLifeStack
updateRow(table, id, name) ==
  /\ \E r \in dbRows[table] : r.id = id /\ r.name # name
  /\ WriteBegins(IF table = "folders" THEN "updateFolder" ELSE "updateLifeStack")
  /\ dbRows' = [dbRows EXCEPT ![table] =
                  {IF r.id = id THEN [r EXCEPT !.name = name] ELSE r : r \in @}]
  /\ UNCHANGED dbItems

\* lines 515-522, 715-722: deleteFolder, deleteLifeStack
deleteRow(table, id) ==
  /\ \E r \in dbRows[table] : r.id = id
  /\ WriteBegins(IF table = "folders" THEN "deleteFolder" ELSE "deleteLifeStack")
  /\ dbRows' = [dbRows EXCEPT ![table] = {r \in @ : r.id # id}]
  /\ UNCHANGED dbItems

\* lines 374-382: createItem
createItem(folderId, stackId) ==
  /\ WriteBegins("createItem")
  /\ dbItems' = dbItems \cup {[id |-> dbWrites + 1, status |-> "new",
                               folder_id |-> folderId, life_stack_id |-> stackId]}
  /\ UNCHANGED dbRows

\* lines 393-404: updateItem
updateItem(itemId, updates) ==
  /\ \E i \in dbItems : i.id = itemId /\ Merged(i, updates) # i
  /\ WriteBegins("updateItem")
  /\ dbItems' = {IF i.id = itemId THEN Merged(i, updates) ELSE i : i \in dbItems}
  /\ UNCHANGED dbRows

\* lines 414-424: updateItemStatus
updateItemStatus(itemId, status) ==
  /\ \E i \in dbItems : i.id = itemId /\ i.status # status
  /\ WriteBegins("updateItemStatus")
  /\ dbItems' = {IF i.id = itemId THEN [i EXCEPT !.status = status] ELSE i : i \in dbItems}
  /\ UNCHANGED dbRows

\* lines 426-433: deleteItem
deleteItem(itemId) ==
  /\ \E i \in dbItems : i.id = itemId
  /\ WriteBegins("deleteItem")
  /\ dbItems' = {i \in dbItems : i.id # itemId}
  /\ UNCHANGED dbRows

\* the write's response has come: its clearCache calls, and it returns
WriteReturns ==
  /\ wq.pc = "response"
  /\ cache' = clearCaches(cache, Invalidates(wq.op))
  /\ doneVersion' = [t \in DOMAIN doneVersion |->
                       IF t \in WritesTo(wq.op) THEN wq.version ELSE doneVersion[t]]
  /\ wq' = IdleWrite
  /\ UNCHANGED <<dbRows, dbItems, cacheNow, gq, dbWrites, served>>
  /\ UNCHANGED <<rlVars, batchVars, alertVars, callVars, rescanVars, folderVars, vaultVars>>

\* time passes
CacheTick ==
  /\ \E d \in CacheTicks :
       /\ cacheNow + d <= MaxCacheTime
       /\ cacheNow' = cacheNow + d
  /\ UNCHANGED <<dbRows, dbItems, cache, gq, wq, dbWrites, doneVersion, served>>
  /\ UNCHANGED <<rlVars, batchVars, alertVars, callVars, rescanVars, folderVars, vaultVars>>

CacheTables == {"folders", "lifestacks"}

RowIds(table) == {r.id : r \in dbRows[table]}

CacheNext ==
  \/ \E table \in CacheTables : GetStart(table)
  \/ GetRows
  \/ GetCounts
  \/ \E table \in CacheTables : createRow(table)
  \/ \E table \in CacheTables, id \in 1..MaxWrites : updateRow(table, id, "b")
  \/ \E table \in CacheTables, id \in 1..MaxWrites : deleteRow(table, id)
  \/ \E f \in {0} \cup RowIds("folders"), k \in {0} \cup RowIds("lifestacks") : createItem(f, k)
  \/ \E itemId \in 1..MaxWrites, f \in {0} \cup RowIds("folders") :
       updateItem(itemId, [folder_id |-> f])
  \/ \E itemId \in 1..MaxWrites : updateItemStatus(itemId, "paid")
  \/ \E itemId \in 1..MaxWrites : deleteItem(itemId)
  \/ WriteReturns
  \/ CacheTick

(***************************************************************************)
(* Life stack routing (src/stores/lifeStackStore.ts:204-224)               *)
(***************************************************************************)

\* the life stacks of the calls: id and keywords
StackDefs ==
  {[id |-> "stack-a", keywords |-> <<"invoice">>],
   [id |-> "stack-b", keywords |-> <<"Payment">>],
   [id |-> "stack-c", keywords |-> <<"wedding", "finance">>]}

\* the stack lists of the store: every order of every choice of stacks
StackLists ==
  {<<>>} \cup {<<a>> : a \in StackDefs}
    \cup {l \in StackDefs \X StackDefs : l[1] # l[2]}
    \cup {l \in StackDefs \X StackDefs \X StackDefs :
            l[1] # l[2] /\ l[1] # l[3] /\ l[2] # l[3]}

RouteTitles == {"Invoice Payment", "WEDDING FLOWERS ORDER", "Service report"}

\* variant of HasMatch that compares the keyword as written
HasMatchExact(stack, itemText) ==
  \E k \in 1..Len(stack.keywords) : includes(itemText, stack.keywords[k])

\* lifeStackStore.ts:209-211: stack.keywords.some(...)
HasMatch(stack, itemText) ==
  \E k \in 1..Len(stack.keywords) : includes(itemText, toLowerCase(stack.keywords[k]))

\* lifeStackStore.ts:208-223: the loop from position i on.  `failing` holds
\* the ids of the stacks for which updateItem throws
RECURSIVE RouteFrom(_, _, _, _)
RouteFrom(stacks, i, itemText, failing) ==
  IF i > Len(stacks) THEN "null"
  ELSE IF HasMatch(stacks[i], itemText) /\ stacks[i].id \notin failing THEN stacks[i].id
  ELSE RouteFrom(stacks, i + 1, itemText, failing)

\* lifeStackStore.ts:204-224
autoRouteItem(it, stacks, failing) ==
  RouteFrom(stacks, 1, toLowerCase(it.title \o " " \o it.category), failing)

AutoRouteItemCalls ==
  {Calling("autoRouteItem",
           [item |-> [title |-> title, category |-> category], stacks |-> stacks,
            failing |-> failing]) :
     title \in RouteTitles, category \in {"Finance", "Other"}, stacks \in StackLists,
     failing \in SUBSET {d.id : d \in StackDefs}}

AutoRouteItemCall ==
  Returns("autoRouteItem", autoRouteItem(call.args.item, call.args.stacks, call.args.failing))

(***************************************************************************)
(* Email classification (part_008:389-427)                                 *)
(***************************************************************************)

TRANSACTIONAL_KEYWORDS ==
  <<"invoice", "payment", "bill", "receipt", "transaction", "charge",
    "amount due", "balance", "statement", "pay now", "payment due",
    "order confirmation", "order #", "shipping", "delivery",
    "tracking", "account statement", "subscription", "renewal",
    "expiring", "due date", "bank", "credit card", "transfer",
    "deposit", "tuition", "fee", "warranty", "appointment", "booking",
    "reservation">>

PROMOTIONAL_KEYWORDS ==
  <<"unsubscribe", "newsletter", "promotion", "sale", "discount",
    "offer", "deal", "limited time", "exclusive", "free shipping",
    "shop now", "buy now", "save", "% off", "coupon">>

\* the first position from i on whose character is not in chars
RECURSIVE SkipForward(_, _, _)
SkipForward(str, i, chars) ==
  IF i <= Len(str) /\ CharAt(str, i) \in chars THEN SkipForward(str, i + 1, chars) ELSE i

\* the last position up to i whose character is not in chars
RECURSIVE SkipBack(_, _, _)
SkipBack(str, i, chars) ==
  IF i >= 1 /\ CharAt(str, i) \in chars THEN SkipBack(str, i - 1, chars) ELSE i

IsIn(str, i, chars) == i >= 1 /\ i <= Len(str) /\ CharAt(str, i) \in chars

\* part_008:417: /\$[\d,]+\.?\d*|\₹[\d,]+\.?\d*|[\d,]+\.?\d*\s*(USD|INR|EUR|GBP)/i
\* on the lower-case content.  A match of the third alternative ends in a
\* currency code that follows, after any white space, a character of [\d,]
\* or a "." that follows one
HasAmount(content) ==
  \/ \E i \in 1..Len(content) :
       CharAt(content, i) \in {"$", "₹"} /\ IsIn(content, i + 1, Digits \cup {","})
  \/ \E j \in 1..Len(content) :
       /\ \E code \in {"usd", "inr", "eur", "gbp"} : MatchesAt(content, j, code)
       /\ LET e == SkipBack(content, j - 1, Whitespace)
          IN \/ IsIn(content, e, Digits \cup {","})
             \/ IsIn(content, e, {"."}) /\ IsIn(content, e - 1, Digits \cup {","})

\* part_008:418: /\d{1,2}[\/\-]\d{1,2}[\/\-]\d{2,4}|due\s+(by|on|date)/i
HasDate(content) ==
  \/ \E i \in 1..Len(content) :
       /\ IsIn(content, i, Digits)
       /\ IsIn(content, i + 1, {"/", "-"})
       /\ IsIn(content, i + 2, Digits)
       /\ \/ /\ IsIn(content, i + 3, {"/", "-"})
             /\ IsIn(content, i + 4, Digits)
             /\ IsIn(content, i + 5, Digits)
          \/ /\ IsIn(content, i + 3, Digits)
             /\ IsIn(content, i + 4, {"/", "-"})
             /\ IsIn(content, i + 5, Digits)
             /\ IsIn(content, i + 6, Digits)
  \/ \E word \in {"by", "on", "date"} : MatchesSpaced(content, "due", word)

\* part_008:419: /order\s*#?\s*\d+|invoice\s*#?\s*\d+|confirmation\s*#?\s*\d+/i
HasOrderNumber(content) ==
  \E i \in 1..Len(content), word \in {"order", "invoice", "confirmation"} :
    /\ MatchesAt(content, i, word)
    /\ LET p == SkipForward(content, i + Len(word), Whitespace)
           q == IF IsIn(content, p, {"#"}) THEN p + 1 ELSE p
       IN IsIn(content, SkipForward(content, q, Whitespace), Digits)

\* Array.prototype.reduce of part_008:407-409 and 413-415
KeywordScore(keywords, content) ==
  Cardinality({k \in 1..Len(keywords) : includes(content, toLowerCase(keywords[k]))})

\* variant of IsPromotional that lets a score of 3 pass
IsPromotionalAboveThree(promotionalScore) == promotionalScore > 3

\* part_008:411
IsPromotional(promotionalScore) == promotionalScore >= 3

\* part_008:404-427
isTransactionalEmail(email) ==
  LET content == toLowerCase(email.subject \o " " \o email.body)
      promotionalScore == KeywordScore(PROMOTIONAL_KEYWORDS, content)
      score == KeywordScore(TRANSACTIONAL_KEYWORDS, content)
                 + (IF HasAmount(content) THEN 2 ELSE 0)
                 + (IF HasDate(content) THEN 2 ELSE 0)
                 + (IF HasOrderNumber(content) THEN 3 ELSE 0)
  IN IF IsPromotional(promotionalScore) THEN FALSE ELSE score >= 3

Subjects == {"Your invoice #12345", "SALE! 50% off everything!", "Hello"}

BodyFragments ==
  <<"Limited time offer! ", "Use your coupon. ", "Unsubscribe at any time. ",
    "Payment due on 12/05/2024. ", "Amount due: $1,299.00 ", "See you soon. ">>

RECURSIVE BodyOf(_, _)
BodyOf(S, i) ==
  IF i > Len(BodyFragments) THEN ""
  ELSE (IF i \in S THEN BodyFragments[i] ELSE "") \o BodyOf(S, i + 1)

IsTransactionalEmailCalls ==
  {Calling("isTransactionalEmail", [subject |-> subject, body |-> BodyOf(S, 1)]) :
     subject \in Subjects, S \in SUBSET (1..Len(BodyFragments))}

IsTransactionalEmailCall ==
  Returns("isTransactionalEmail", isTransactionalEmail(call.args))

(***************************************************************************)
(* Validation of the analysis (src/lib/ocr.ts:263-322).  A value of the    *)
(* parsed JSON is a record of its typeof-like tag t and its content v.     *)
(***************************************************************************)

Undefined == [t |-> "undefined", v |-> "undefined"]
Null == [t |-> "null", v |-> "null"]
Str(v) == [t |-> "string", v |-> v]
Num(v) == [t |-> "number", v |-> v]
Bool(v) == [t |-> "boolean", v |-> v]
Arr(v) == [t |-> "array", v |-> v]
Obj(v) == [t |-> "object", v |-> v]

\* ocr.ts:177
VALID_CATEGORIES == <<"Finance", "Education", "Shopping", "Health", "Career", "Other">>

\* the value of a decimal digit, and of the n digits of str from position i
DigitValue(c) == CHOOSE d \in 0..9 : CharAt("0123456789", d + 1) = c

RECURSIVE NumberAt(_, _, _)
NumberAt(str, i, n) ==
  IF n = 0 THEN 0
  ELSE NumberAt(str, i, n - 1) * 10 + DigitValue(CharAt(str, i + n - 1))

DigitsAt(str, i, n) == \A k \in i..(i + n - 1) : IsIn(str, k, Digits)

\* the date form YYYY-MM-DD at the start of str
IsIsoDate(str) ==
  /\ Len(str) >= 10
  /\ DigitsAt(str, 1, 4) /\ CharAt(str, 5) = "-"
  /\ DigitsAt(str, 6, 2) /\ CharAt(str, 8) = "-"
  /\ DigitsAt(str, 9, 2)
  /\ NumberAt(str, 6, 2) \in 1..12
  /\ NumberAt(str, 9, 2) \in 1..31

\* the time form THH:MM:SS from position 11 of str on
IsIsoTime(str) ==
  /\ Len(str) >= 19
  /\ CharAt(str, 11) = "T"
  /\ DigitsAt(str, 12, 2) /\ CharAt(str, 14) = ":"
  /\ DigitsAt(str, 15, 2) /\ CharAt(str, 17) = ":"
  /\ DigitsAt(str, 18, 2)
  /\ NumberAt(str, 12, 2) \in 0..23

\* ocr.ts:286: new Date(dueDate).  A date alone is midnight UTC, a date and
\* time ending in Z is UTC, a date and time without offset is local time;
\* any other text of the calls is no date (NaN)
DateOf(str) ==
  IF IsIsoDate(str) /\ Len(str) = 10
    THEN [valid |-> TRUE, utc |-> TRUE, year |-> NumberAt(str, 1, 4),
          month |-> NumberAt(str, 6, 2), day |-> NumberAt(str, 9, 2), hours |-> 0]
  ELSE IF IsIsoDate(str) /\ IsIsoTime(str) /\ (Len(str) = 19 \/ (Len(str) = 20 /\ CharAt(str, 20) = "Z"))
    THEN [valid |-> TRUE, utc |-> Len(str) = 20, year |-> NumberAt(str, 1, 4),
          month |-> NumberAt(str, 6, 2), day |-> NumberAt(str, 9, 2),
          hours |-> NumberAt(str, 12, 2)]
  ELSE [valid |-> FALSE, utc |-> FALSE, year |-> 0, month |-> 0, day |-> 0, hours |-> 0]

\* ocr.ts:290: parsedDate.getFullYear(), the year in local time, for a
\* runtime whose local time is UTC + tz hours (tz between -12 and 14): the
\* offset moves the time by less than a day
getFullYear(parsedDate, tz) ==
  IF ~parsedDate.utc THEN parsedDate.year
  ELSE IF parsedDate.hours + tz < 0 /\ parsedDate.month = 1 /\ parsedDate.day = 1
    THEN parsedDate.year - 1
  ELSE IF parsedDate.hours + tz >= 24 /\ parsedDate.month = 12 /\ parsedDate.day = 31
    THEN parsedDate.year + 1
  ELSE parsedDate.year

\* String.prototype.trim() === ''
TrimsToEmpty(str) == \A i \in 1..Len(str) : CharAt(str, i) \in Whitespace

\* variant of TitleInvalid that does not trim
TitleInvalidUntrimmed(title) == title.t # "string" \/ title.v = ""

\* ocr.ts:271
TitleInvalid(title) == title.t # "string" \/ TrimsToEmpty(title.v)

\* ocr.ts:281-296
ValidDueDate(due_date, tz) ==
  IF due_date.t = "null" THEN Null
  ELSE IF due_date.t # "string" THEN Null
  ELSE IF ~DateOf(due_date.v).valid THEN Null
  ELSE IF getFullYear(DateOf(due_date.v), tz) < 2000 \/ getFullYear(DateOf(due_date.v), tz) > 2100
    THEN Null
  ELSE due_date

\* ocr.ts:304-310
ValidBullets(summary_bullets) ==
  LET kept == IF summary_bullets.t = "array"
                THEN SelectSeq(summary_bullets.v, LAMBDA b : b.t = "string")
                ELSE <<>>
  IN IF Len(kept) = 0 THEN <<Str("Document scanned successfully")>> ELSE kept

Throws(message) == [throws |-> TRUE, message |-> message]

NoFields == [title |-> Undefined, amount |-> Undefined, due_date |-> Undefined,
             category |-> Undefined, summary_bullets |-> Undefined, is_scam |-> Undefined]

\* ocr.ts:263-322, in a runtime whose local time is UTC + tz hours
validateDocumentAnalysis(response, tz) ==
  IF response.t \notin {"object", "array"}
    THEN Throws("Invalid AI response: not an object")
  ELSE LET data == IF response.t = "object" THEN response.v ELSE NoFields
       IN IF TitleInvalid(data.title)
            THEN Throws("Invalid AI response: title must be a non-empty string")
            ELSE [throws |-> FALSE,
                  title |-> data.title,
                  amount |-> IF data.amount.t = "number" THEN data.amount ELSE Null,
                  due_date |-> ValidDueDate(data.due_date, tz),
                  category |-> IF /\ data.category.t = "string"
                                  /\ \E k \in 1..Len(VALID_CATEGORIES) :
                                       VALID_CATEGORIES[k] = data.category.v
                                 THEN data.category ELSE Str("Other"),
                  summary_bullets |-> ValidBullets(data.summary_bullets),
                  is_scam |-> IF data.is_scam.t = "boolean" THEN data.is_scam.v ELSE FALSE]

\* the offsets of the runtime's local time from UTC, in hours
TimeZones == {0 - 8, 0, 9}

TitleArgs == {Undefined, Null, Num(5), Str(""), Str("  "), Str("Electric Bill")}

AmountArgs == {Undefined, Null, Num(1299), Str("1,299")}

DueDateArgs ==
  {Undefined, Null, Num(20250115), Str("next week"), Str("1999-12-31"), Str("2000-01-01"),
   Str("2000-06-15"), Str("2100-12-31"), Str("2101-01-01"), Str("2100-12-31T23:30:00Z"),
   Str("2000-01-01T00:00:00")}

CategoryArgs == {Undefined, Num(3), Str("Finance"), Str("Banana")}

BulletArgs == {Undefined, Str("one line"), Arr(<<Str("Pay by Friday"), Num(2)>>)}

\* the parsed responses: JSON objects, and JSON values that are no objects
Responses ==
  {Obj([title |-> title, amount |-> amount, due_date |-> due_date, category |-> category,
        summary_bullets |-> bullets, is_scam |-> Bool(TRUE)]) :
     title \in TitleArgs, amount \in AmountArgs, due_date \in DueDateArgs,
     category \in CategoryArgs, bullets \in BulletArgs}
    \cup {Null, Str("{}"), Num(1), Arr(<<>>)}

ValidateCalls ==
  {Calling("validateDocumentAnalysis", [response |-> response, tz |-> tz]) :
     response \in Responses, tz \in TimeZones}

ValidateCall ==
  Returns("validateDocumentAnalysis",
          validateDocumentAnalysis(call.args.response, call.args.tz))

Calls == AlertTypeCalls \cup DetectScamCalls \cup DetermineFolderNameCalls
           \cup AutoRouteItemCalls \cup IsTransactionalEmailCalls
           \cup ValidateCalls

CallsInit ==
  RLInit /\ BatchInit /\ AlertInit /\ RescanInit /\ FolderInit /\ VaultInit
  /\ CacheInit /\ call \in Calls

CallsNext ==
  \/ AlertTypeCall
  \/ DetectScamCall
  \/ DetermineFolderNameCall
  \/ AutoRouteItemCall
  \/ IsTransactionalEmailCall
  \/ ValidateCall

Init ==
  RLInit /\ BatchInit /\ AlertInit /\ CallInit /\ RescanInit /\ FolderInit /\ VaultInit
  /\ CacheInit

SpecRL == Init /\ [][RLNext]_vars

SpecRLLive == Init /\ [][RLLiveNext]_vars /\ RLFairness

SpecBatch == Init /\ [][BatchNext]_vars

SpecAlerts == Init /\ [][AlertsNext]_vars

SpecRescan == Init /\ [][RescanNext]_vars

SpecGuardian == Init /\ [][GuardianNext]_vars

SpecCalls == CallsInit /\ [][CallsNext]_vars

SpecFolders == Init /\ [][FoldersNext]_vars

SpecVault == Init /\ [][VaultNext]_vars

SpecCache == Init /\ [][CacheNext]_vars

(***************************************************************************)
(* Properties                                                              *)
(***************************************************************************)

\* C1: any two tasks the RateLimiter dispatches one after the other start at
\* least minDelayMs apart
C1_MinDelayBetweenStarts ==
  \A i \in 1..(Len(startLog) - 1) : startLog[i + 1].at >= startLog[i].at + minDelayMs

\* a second task was held back by the timer and started exactly minDelayMs
\* after the first
C1_Witness ==
  /\ Len(startLog) >= 2
  /\ startLog[2].at = startLog[1].at + minDelayMs

\* C2: tasks are dispatched in the order of the queueRequest calls (task k is
\* the one submitted by the k-th call)
C2_FifoDispatch == \A i \in 1..Len(startLog) : startLog[i].task = i

\* two tasks have been dispatched while a third one is waiting in the queue
C2_Witness ==
  /\ Len(startLog) = 2
  /\ Len(queue) >= 1

\* C3: a rejected task neither blocks nor cancels the tasks behind it, and
\* every caller's promise is settled at most once, with the outcome of its own
\* task
C3_FailureIsolated ==
  /\ \A t \in Tasks :
       /\ settleCalls[t] <= 1
       /\ settled[t] = produced[t]
       /\ settled[t].kind # "pending" => settled[t].task = t
  /\ \A t \in 1..submitted :
       \/ \E i \in 1..Len(startLog) : startLog[i].task = t
       \/ /\ isProcessing
          /\ wpc # "idle"
          /\ \/ \E k \in 1..Len(queue) : queue[k] = t
             \/ wpc = "timer" /\ item = t

\* a task was rejected and a task submitted after it was dispatched and resolved
C3_Witness ==
  \E t, u \in Tasks :
    /\ t < u
    /\ settled[t].kind = "rejected"
    /\ settled[u].kind = "resolved"

\* C4: at no time are more than maxConcurrent email-content fetches in flight
C4_BoundedInFlight == Cardinality(inFlight) <= cfg.maxConcurrent

\* the stored alerts of document d that are not dismissed
ActiveAlertsOf(as, d) == {k \in 1..Len(as) : as[k].item_id = d /\ ~as[k].is_dismissed}

\* C5: each document has at most one stored alert that is not dismissed
C5_OneActiveAlertPerItem ==
  \A d \in 1..MaxDocs : Cardinality(ActiveAlertsOf(lsAlerts, d)) <= 1

\* C6: when markAsPaid(document) completes, every stored alert of the document
\* is dismissed and the alerts of the other documents are as they were
C6_MarkAsPaidDismisses ==
  [][(mp.pc = "update" /\ mp'.pc = "idle" /\ mp.found) =>
       /\ ActiveAlertsOf(lsAlerts', mp.itemId) = {}
       /\ \A k \in 1..Len(lsAlerts) :
            lsAlerts[k].item_id # mp.itemId => lsAlerts'[k] = lsAlerts[k]]_vars

\* C7: when removeItem(document) completes, no stored alert that is not
\* dismissed refers to the deleted document
C7_RemoveItemDismisses ==
  [][(ri.pc = "delete" /\ ri'.pc = "idle") =>
       ActiveAlertsOf(lsAlerts', ri.itemId) = {}]_vars

\* C8: when a document with is_scam = true has been saved while push
\* notifications are enabled, a scam_warning alert for it is stored
C8_ScamWarningCreated ==
  [][(hc.pc # "idle" /\ hc'.pc = "idle" /\ hc.item.is_scam
      /\ profile.push_notifications_enabled) =>
       \E k \in 1..Len(lsAlerts') :
         /\ lsAlerts'[k].item_id = hc.item.id
         /\ lsAlerts'[k].alert_type = "scam_warning"]_vars

\* C9: no alert is created for a document that is due more than 7 days after
\* the time of the creation
C9_NoAlertBeyondSevenDays ==
  \A k \in 1..Len(lsAlerts) :
    DaysUntilDue(lsAlerts[k].trigger_date, lsAlerts[k].created_at) <= 7

\* C10: no alert is created while the user's push_notifications_enabled is false
C10_NoAlertWhenPushDisabled ==
  [][Len(lsAlerts') > Len(lsAlerts) => profile.push_notifications_enabled]_vars

\* C11: for a due date at most 7 days ahead (days rounded up), the alert type
\* is overdue below 0 days, deadline_1day for 0 and 1 day, deadline_7day for 2
\* to 7 days; createAlertForItem, checkDeadlines (when it creates an alert,
\* and always with all reminders enabled) and determineAlertType agree on it
C11_Days(diff) == CHOOSE n \in (0 - MaxNow)..MaxDue : n * DayLen >= diff /\ (n - 1) * DayLen < diff

C11_Kind(days) ==
  IF days < 0 THEN "overdue" ELSE IF days <= 1 THEN "deadline_1day" ELSE "deadline_7day"

C11_AlertKind ==
  (call.fn = "alertType" /\ call.done) =>
    LET days == C11_Days(call.args.dueDate - call.args.now)
        kind == C11_Kind(days)
    IN days <= 7 =>
         /\ call.result.ofItem = kind
         /\ call.result.ofTest = kind
         /\ call.result.ofDeadline \in {kind, "none"}
         /\ call.args.settings = AllEnabled => call.result.ofDeadline = kind

C11_Witness ==
  /\ call.fn = "alertType"
  /\ call.done
  /\ call.args.dueDate - call.args.now = DayLen
  /\ call.args.settings = AllEnabled
  /\ call.result.ofItem = "deadline_1day"
  /\ call.result.ofDeadline = "deadline_1day"

\* C12: when checkDeadlines has been awaited twice in a row, with no other
\* operation running meanwhile, every stored document that has a due date at
\* most 7 days ahead and is neither paid nor archived has exactly one
\* non-dismissed alert
C12_Qualifies(it) ==
  /\ it.due_date # 0
  /\ it.status \notin {"paid", "archived"}
  /\ C11_Days(it.due_date - date) <= 7

C12_RescanIdempotent ==
  rescan.pc = "done" =>
    \A k \in 1..Len(lsItems) :
      C12_Qualifies(lsItems[k]) =>
        Cardinality(ActiveAlertsOf(lsAlerts, lsItems[k].id)) = 1

\* the first run created an alert and the second run created none
C12_Witness ==
  /\ rescan.pc = "done"
  /\ rescan.between = rescan.before + 1
  /\ Len(lsAlerts) = rescan.between
  /\ \E k \in 1..Len(lsItems) : C12_Qualifies(lsItems[k])

\* C13: detectScam on the content "URGENT: verify your password immediately
\* or account suspended" from security@paypa1-verify.xyz returns a risk score
\* of at least 70, is_scam = true and a recommendation containing "HIGH RISK"
C13_ScenarioIsScam ==
  (/\ call.fn = "detectScam"
   /\ call.done
   /\ call.args.content = ScenarioContent
   /\ call.args.sender = "security@paypa1-verify.xyz") =>
    /\ call.result.risk_score >= 70
    /\ call.result.is_scam
    /\ includes(call.result.recommendation, "HIGH RISK")

\* C16: for every content and sender, detectScam returns an integer
\* risk_score with 0 <= risk_score <= 100, and is_scam is true exactly when
\* risk_score >= 70
C16_RiskScoreBounded ==
  (call.fn = "detectScam" /\ call.done) =>
    /\ call.result.risk_score \in 0..100
    /\ call.result.is_scam <=> call.result.risk_score >= 70

\* the four detectors fire at their caps (40 + 50 + 25 + 15)
C16_Witness ==
  /\ call.fn = "detectScam"
  /\ call.done
  /\ Cardinality(call.result.scam_indicators.urgency) >= 3
  /\ Cardinality(call.result.scam_indicators.sensitive) >= 3
  /\ call.result.scam_indicators.domain = 1
  /\ call.result.scam_indicators.links = 1
  /\ call.result.risk_score = 100
  /\ call.result.is_scam

\* C14: determineFolderName("Electric Bill", "Finance") returns "Utility
\* Bills" through a keyword of the document-type table, not the name of the
\* category
C14_ElectricBillFolder ==
  (/\ call.fn = "determineFolderName"
   /\ call.done
   /\ call.args.title = "Electric Bill"
   /\ call.args.category = "Finance") =>
    /\ call.result.folder = "Utility Bills"
    /\ call.result.keyword # ""

\* C15: autoRouteItem returns the id of the first stack of the list that has
\* a keyword which is a case-insensitive substring of title + " " + category,
\* and none only when no stack matches
C15_Matches(stack, it) ==
  \E k \in 1..Len(stack.keywords) :
    includes(toLowerCase(it.title \o " " \o it.category), toLowerCase(stack.keywords[k]))

C15_FirstOf(S, stacks) ==
  IF S = {} THEN "null" ELSE stacks[MinOf(S)].id

C15_FirstMatchingStack ==
  (call.fn = "autoRouteItem" /\ call.done) =>
    call.result = C15_FirstOf({i \in 1..Len(call.args.stacks) :
                                 C15_Matches(call.args.stacks[i], call.args.item)},
                              call.args.stacks)

\* C15 as amended: autoRouteItem returns the id of the first stack of the list
\* that has a matching keyword and whose updateItem succeeds, and none only
\* when there is no such stack
C15_FirstAssignedStack ==
  (call.fn = "autoRouteItem" /\ call.done) =>
    call.result = C15_FirstOf({i \in 1..Len(call.args.stacks) :
                                 /\ C15_Matches(call.args.stacks[i], call.args.item)
                                 /\ call.args.stacks[i].id \notin call.args.failing},
                              call.args.stacks)

\* two stacks match, no update fails, and the first of them is returned
C15_Witness ==
  /\ call.fn = "autoRouteItem"
  /\ call.done
  /\ call.args.failing = {}
  /\ Len(call.args.stacks) >= 2
  /\ C15_Matches(call.args.stacks[1], call.args.item)
  /\ C15_Matches(call.args.stacks[2], call.args.item)
  /\ call.result = call.args.stacks[1].id

\* C17: isTransactionalEmail returns false whenever at least 3 promotional
\* keywords occur in subject + " " + body, whatever the transactional score
C17_Promotional(email) ==
  Cardinality({k \in 1..Len(PROMOTIONAL_KEYWORDS) :
                 includes(toLowerCase(email.subject \o " " \o email.body),
                          PROMOTIONAL_KEYWORDS[k])})

C17_PromotionalWins ==
  (call.fn = "isTransactionalEmail" /\ call.done /\ C17_Promotional(call.args) >= 3) =>
    call.result = FALSE

\* exactly three promotional keywords in an email with an invoice number, an
\* amount and a due date
C17_Witness ==
  /\ call.fn = "isTransactionalEmail"
  /\ call.done
  /\ C17_Promotional(call.args) = 3
  /\ call.args.subject = "Your invoice #12345"
  /\ includes(call.args.body, "Amount due: $1,299.00")
  /\ includes(call.args.body, "Payment due on 12/05/2024")
  /\ call.result = FALSE

\* C18: validateDocumentAnalysis raises an error if and only if the title is
\* missing, is not a string or is empty after trimming; an object with a
\* valid title gets a result whatever amount, due_date, category and
\* summary_bullets are
C18_TitleOk(response) ==
  /\ response.t = "object"
  /\ response.v.title.t = "string"
  /\ \E i \in 1..Len(response.v.title.v) :
       SubSeq(response.v.title.v, i, i) \notin {" ", "\t", "\n"}

C18_RaisesOnlyOnTitle ==
  (call.fn = "validateDocumentAnalysis" /\ call.done) =>
    (call.result.throws <=> ~C18_TitleOk(call.args.response))

\* a valid title with a text amount, a numeric due date, an unknown category
\* and no summary_bullets: a result is returned
C18_Witness ==
  /\ call.fn = "validateDocumentAnalysis"
  /\ call.done
  /\ C18_TitleOk(call.args.response)
  /\ call.args.response.v.amount.t = "string"
  /\ call.args.response.v.due_date.t = "number"
  /\ call.args.response.v.category.t = "number"
  /\ call.args.response.v.summary_bullets.t = "undefined"
  /\ ~call.result.throws

\* C19: validateDocumentAnalysis makes a due_date of year 1999 or 2101 null
\* and keeps every parsable due_date of calendar year 2000 or 2100, the first
\* day of 2000 and the last day of 2100 included, whatever the offset of the
\* runtime's time zone
C19_YearWindow ==
  (/\ call.fn = "validateDocumentAnalysis"
   /\ call.done
   /\ ~call.result.throws
   /\ call.args.response.v.due_date.t = "string"
   /\ IsIsoDate(call.args.response.v.due_date.v)) =>
    LET year == NumberAt(call.args.response.v.due_date.v, 1, 4)
    IN /\ year \in {1999, 2101} => call.result.due_date.t = "null"
       /\ year \in {2000, 2100} =>
            /\ call.result.due_date.t = "string"
            /\ call.result.due_date.v = call.args.response.v.due_date.v

\* C20: no two of a user's persisted folders have names that are equal ignoring
\* case, whatever the order and interleaving of scanDocument and addFolder.
C20_UniqueFolderNames ==
  \A i, j \in 1..Len(lsFolders) :
    i # j => lowerNameOf[lsFolders[i].name] # lowerNameOf[lsFolders[j].name]

\* C21: after deleteStack, no persisted document references the deleted stack,
\* and the documents are the ones there were before.
C21_StackReferencesCleared ==
  vop.op = "deleteStack" =>
    /\ vop.id \notin IdsOf(lsStacks)
    /\ IdsOf(lsRecords) = IdsOf(vop.before)
    /\ \A k \in 1..Len(lsRecords) : lsRecords[k].life_stack_id # vop.id

C27_StatusNeverBackToNew ==
  [][\A k \in 1..Len(lsRecords) :
       lsRecords[k].status # "new" =>
         k <= Len(lsRecords') /\ lsRecords'[k].status # "new"]_vars

\* the tasks whose request() has been called and has not settled
C23_Executing ==
  {t \in Tasks : produced[t].kind = "pending"
                  /\ \E k \in 1..Len(startLog) : startLog[k].task = t}

\* C23: at most one submitted task is executing at any time, and the loop holds
\* exactly that task while it waits for it.
C23_OneTaskAtATime ==
  /\ Cardinality(C23_Executing) <= 1
  /\ C23_Executing = IF wpc = "task" THEN {item} ELSE {}

\* a task is executing while another one waits in the queue
C23_Witness ==
  /\ wpc = "task"
  /\ C23_Executing = {item}
  /\ Len(queue) > 0

\* C24: a submitted task is eventually dispatched; tasks never wait without an
\* active loop; the loop stops on the empty queue.
C24_EveryTaskDispatched ==
  /\ \A t \in Tasks :
       (submitted >= t) ~> (\E k \in 1..Len(startLog) : startLog[k].task = t)
  /\ [](Len(queue) > 0 => isProcessing /\ wpc # "idle")
  /\ [](isProcessing <=> wpc # "idle")

\* every submitted task has been dispatched and the loop has stopped on the
\* empty queue
C24_Witness ==
  /\ ~isProcessing
  /\ queue = <<>>
  /\ submitted >= 2
  /\ \A t \in 1..submitted : \E k \in 1..Len(startLog) : startLog[k].task = t

\* C25: with push enabled, checkDeadlines picks deadline_1day only with the
\* 1-day toggle on and deadline_7day only with the 7-day toggle on, picks overdue
\* whatever the toggles are, and picks no deadline_7day for daysUntilDue <= 1.
C25_TogglesGateReminders ==
  (call.fn = "alertType" /\ call.done /\ call.args.settings.push_notifications_enabled) =>
    LET days == C11_Days(call.args.dueDate - call.args.now)
        kind == call.result.ofDeadline
        settings == call.args.settings
    IN /\ kind = "deadline_1day" => settings.reminder_1day_enabled
       /\ kind = "deadline_7day" => settings.reminder_7day_enabled
       /\ days < 0 => kind = "overdue"
       /\ (days >= 0 /\ days <= 1 /\ ~settings.reminder_1day_enabled) => kind = "none"
       /\ (days >= 0 /\ days <= 1 /\ settings.reminder_1day_enabled) => kind = "deadline_1day"
       /\ (days > 1 /\ days <= 7 /\ settings.reminder_7day_enabled) => kind = "deadline_7day"

\* a document due tomorrow with the 1-day toggle off and the 7-day toggle on
C25_Witness ==
  /\ call.fn = "alertType"
  /\ call.done
  /\ call.args.dueDate - call.args.now = DayLen
  /\ ~call.args.settings.reminder_1day_enabled
  /\ call.args.settings.reminder_7day_enabled
  /\ call.result.ofDeadline = "none"

\* C26: getFolders and getLifeStacks return no cached value that was computed
\* before a write that has returned, and none whose age has reached CACHE_TTL.
C26_NoStaleCachedValue ==
  served.fromCache => ~served.stale /\ served.age < CACHE_TTL

\* C28: the store's unreadCount is the number of non-dismissed alerts of the
\* store's list.
C28_UnreadCountMatches == unreadCount = ActiveCount(alerts)

C30_NoCreatedFolderLost ==
  \A caller \in Callers :
    af[caller].pc \in {"set", "returned"} =>
      \E k \in 1..Len(lsFolders) : lsFolders[k] = af[caller].newFolder

====
